---------------------------- MODULE Spec2Model ----------------------------
(***************************************************************************)
(* State-machine model of the section screens of the application: the      *)
(* Diary screen (form, submit handler, image conversion), the Feed screen  *)
(* (fetch, pull-to-refresh) with the love_letters table behind it, and the *)
(* Music screen (fetch, add-playlist modal).                               *)
(*                                                                         *)
(* Text values are sequences of one-character strings; data URIs and URLs  *)
(* are sequences of tokens in which "," (resp. the two halves of the       *)
(* Spotify marker) are tokens of their own, so that trim(), split(',') and *)
(* includes() are computed and not assumed.  A nullable string that never  *)
(* takes the empty-string value is modelled with NULL == <<>>.             *)
(***************************************************************************)
EXTENDS Integers, Sequences, FiniteSets, Bags

VARIABLES
    \* ---- Diary screen (DiarySection, photo revision) ----
    message,        \* useState("")            form field
    author,         \* useState("")            form field
    image,          \* useState(null)          selected photo URI or NULL
    isSubmitting,   \* useState(false)
    submits,        \* running handleSubmit invocations, each suspended at an await
    dAlerts,        \* bag of the Alert.alert dialogs currently displayed
    presses,        \* number of handleSubmit invocations that passed validation
    inserts,        \* number of insert requests the Diary screen has issued
    \* ---- love_letters table and Feed screen (FeedSection) ----
    love_letters,   \* rows of the table, in insertion order
    now,            \* real time at the store
    letters,        \* useState([])
    loading,        \* useState(true)
    refreshing,     \* useState(false)
    mounted,        \* the mount effect has run
    requests,       \* fetch requests in flight
    issued,         \* number of fetch requests issued so far
    everShown,      \* ids of the rows the letters list has ever held
    outcome,        \* how the fetch that resolved last ended
    \* ---- music_playlists table and Music screen (MusicSection) ----
    music_playlists,\* rows of the table, in insertion order
    playlists,      \* useState([])
    mLoading,       \* useState(true)     loading
    mRefreshing,    \* useState(false)    refreshing
    modalVisible,   \* useState(false)
    newPlaylist,    \* useState({ name: "", description: "", spotify_url: "" })
    mRequests,      \* select and insert requests in flight
    mIssued,        \* number of requests issued so far
    mMounted,       \* the mount effect has run
    mAlerts,        \* bag of the Alert.alert dialogs currently displayed
    \* ---- image download of the Feed screen (handleDownloadImage) ----
    fAlerts,        \* bag of the Alert.alert dialogs the Feed screen displays
    files,          \* documentDirectory: file name -> base64 text written
    \* ---- one widget of the component kit and the parent that renders it ----
    wKind,          \* which widget
    wType,          \* type prop of ToggleGroup and Accordion
    wDefault,       \* default value prop (defaultPressed, defaultChecked, defaultOpen, defaultValue)
    wProp,          \* controlled value prop (pressed, checked, open, value) or Undefined
    wDisabled,      \* disabled prop
    wState,         \* the widget's own useState
    wCalls,         \* arguments of the calls of the change callback, in order
    wActs,          \* user activations so far
    wEnabledActs,   \* user activations so far that found the widget enabled
    wGesture,       \* the control activated last
    \* ---- one element of the component kit being rendered ----
    rProvided,      \* contexts for which an ancestor of the element is a Provider
    rLast,          \* the component whose function ran last under these ancestors
    rError,         \* the error that render threw, or NoError
    \* ---- the page (Index) and what outlives the screens ----
    activeSection,  \* useState('home')
    orphans,        \* running handleSubmit invocations of unmounted Diary screens
    downloads,      \* running handleDownloadImage invocations, suspended at the write
    produced,       \* letter id -> base64 payload the Diary conversion returned
    \* ---- a Carousel ----
    currentIndex,   \* useState(0)
    itemsCount,     \* useState(0), set by the effect that counts the children
    \* ---- an InputOTP ----
    maxLength,      \* the maxLength prop
    internalValue,  \* useState(propValue || "")
    activeInput,    \* useState(0)
    otpChanges,     \* the value onChange was called with last, if any
    \* ---- a Select ----
    selectDisabled, \* the disabled prop of the Select
    openState,      \* useState(defaultOpen)
    valueState,     \* useState(defaultValue)
    selectCalls,    \* calls of onValueChange and onOpenChange, in order
    \* ---- a ToastProvider with a Toaster ----
    toasts,         \* useState([]) of the provider
    timers,         \* auto-dismiss timers armed and not cleared: [id, delay]
    fadeOuts,       \* fade-out animations started and not ended: [id, by]
    added           \* calls of addToast so far

dvars == <<message, author, image, isSubmitting, submits, dAlerts, presses, inserts>>
fvars == <<love_letters, now, letters, loading, refreshing, mounted, requests,
           issued, everShown, outcome>>
mvars == <<music_playlists, playlists, mLoading, mRefreshing, modalVisible,
           newPlaylist, mRequests, mIssued, mMounted, mAlerts>>
xvars == <<fAlerts, files>>
wvars == <<wKind, wType, wDefault, wProp, wDisabled, wState, wCalls, wActs,
           wEnabledActs, wGesture>>
rvars == <<rProvided, rLast, rError>>
avars == <<activeSection, orphans, downloads, produced>>
cvars == <<currentIndex, itemsCount>>
ovars == <<maxLength, internalValue, activeInput, otpChanges>>
svars == <<selectDisabled, openState, valueState, selectCalls>>
tvars == <<toasts, timers, fadeOuts, added>>
kvars == <<cvars, ovars, svars, tvars>>
vars == <<dvars, fvars, mvars, xvars, wvars, rvars, avars, kvars>>
notDiary == <<fvars, mvars, xvars, wvars, rvars, avars, kvars>>
notFeed == <<dvars, mvars, xvars, wvars, rvars, avars, kvars>>
notMusic == <<dvars, fvars, xvars, wvars, rvars, avars, kvars>>
notWidget == <<dvars, fvars, mvars, xvars, rvars, avars, kvars>>
notCarousel == <<dvars, fvars, mvars, xvars, wvars, rvars, avars, ovars, svars, tvars>>
notOTP == <<dvars, fvars, mvars, xvars, wvars, rvars, avars, cvars, svars, tvars>>
notSelect == <<dvars, fvars, mvars, xvars, wvars, rvars, avars, cvars, ovars, tvars>>
notToast == <<dvars, fvars, mvars, xvars, wvars, rvars, avars, cvars, ovars, svars>>
notRender == <<dvars, fvars, mvars, xvars, wvars, avars, kvars>>

NULL == <<>>

\* Values of widget props and state: booleans, strings, arrays of strings and
\* the absent prop.
Bool(b) == [tag |-> "bool", on |-> b]
Str(t) == [tag |-> "string", text |-> t]
Arr(a) == [tag |-> "array", items |-> a]
Undefined == [tag |-> "undefined"]

(***************************************************************************)
(* Bounds of the model.                                                    *)
(***************************************************************************)
MaxPresses == 2     \* accepted submissions per behaviour
MaxSubmits == 1     \* handleSubmit invocations running at once (direct calls)
MaxLetters == 2     \* rows inserted into love_letters
MaxFetches == 3     \* fetch requests the Feed screen issues
ClockSkew == 2      \* how far the second client's clock runs behind
MaxMusicRequests == 3  \* requests the Music screen issues
MaxActivations == 3 \* user activations of the widget
MaxNesting == 2     \* contexts provided around the element being rendered
MaxAppPresses == 1  \* accepted submissions while the whole application runs
MaxAppFetches == 2  \* fetch requests while the whole application runs
MaxPayload == 2     \* tokens of a base64 payload
MaxItems == 10      \* CarouselItem children of a Carousel
MaxOtpLength == 4   \* the largest maxLength prop of an InputOTP
MaxOtpText == 3     \* characters of a text the hidden input reports
MaxSelectCalls == 4 \* callback calls of a Select after which no press is taken
MaxToasts == 3      \* calls of addToast

(***************************************************************************)
(* Input domains.                                                          *)
(***************************************************************************)
WhiteSpace == {" ", "\n"}

Texts ==
    { <<>>, <<" ">>, <<" ", "\n">>, <<"a">>, <<" ", "b", " ">> }

Photos == { <<"file://photo1.jpg">>, <<"file://photo2.jpg">> }

\* The base64 text of the picked file (the picker returns a re-encoded JPEG,
\* which is never empty; base64 text holds no comma).
FileContent(uri) ==
    IF uri = <<"file://photo1.jpg">> THEN <<"/9j/", "4AAQ">> ELSE <<"iVBO">>

(***************************************************************************)
(* String helpers.                                                         *)
(***************************************************************************)
RECURSIVE TrimStart(_)
TrimStart(s) ==
    IF s # <<>> /\ Head(s) \in WhiteSpace THEN TrimStart(Tail(s)) ELSE s

RECURSIVE TrimEnd(_)
TrimEnd(s) ==
    IF s # <<>> /\ s[Len(s)] \in WhiteSpace
    THEN TrimEnd(SubSeq(s, 1, Len(s) - 1))
    ELSE s

Trim(s) == TrimEnd(TrimStart(s))

\* s.split(','): the segments between the "," tokens.
RECURSIVE SplitComma(_)
SplitComma(s) ==
    IF \A i \in 1..Len(s) : s[i] # ","
    THEN <<s>>
    ELSE LET k == CHOOSE i \in 1..Len(s) :
                      s[i] = "," /\ \A j \in 1..(i - 1) : s[j] # ","
         IN  <<SubSeq(s, 1, k - 1)>> \o SplitComma(SubSeq(s, k + 1, Len(s)))

\* s.split(',')[1]; undefined (falsy, NULL here) when there is no comma.
SplitSecond(s) ==
    IF Len(SplitComma(s)) >= 2 THEN SplitComma(s)[2] ELSE NULL

\* FileReader.readAsDataURL of the fetched blob.
ReadAsDataURL(uri) == <<"data:image/jpeg;base64", ",">> \o FileContent(uri)

imageToBase64(uri) == SplitSecond(ReadAsDataURL(uri))

\* `data:image/jpeg;base64,${imageBase64}` when imageBase64 is truthy, else null.
ImageUrlOf(imageBase64) ==
    IF imageBase64 # <<>>
    THEN <<"data:image/jpeg;base64", ",">> \o imageBase64
    ELSE NULL

RemoveAt(s, i) == SubSeq(s, 1, i - 1) \o SubSeq(s, i + 1, Len(s))

(***************************************************************************)
(* Diary screen.                                                           *)
(***************************************************************************)
AlertCampos == "Campos requeridos"
AlertPermiso == "Permiso requerido"
AlertImagen == "La carta se enviara sin imagen"
AlertNoEnviada == "No se pudo enviar tu carta"
AlertInesperado == "Ocurrio un error inesperado"
AlertEnviada == "Carta enviada"

\* The row handed to supabase.from("love_letters").insert (created_at is
\* stamped by the client clock, see RemoteInsert).
InsertRow(h, imageBase64) ==
    [message |-> Trim(h.message), author |-> Trim(h.author),
     image_url |-> ImageUrlOf(imageBase64)]

\* Faulty variant: the control stays enabled while a submission is under way.
SubmitDisabledFieldsOnly ==
    Trim(message) = <<>> \/ Trim(author) = <<>>

\* disabled={!message.trim() || !author.trim() || isSubmitting}
SubmitDisabled ==
    Trim(message) = <<>> \/ Trim(author) = <<>> \/ isSubmitting

\* Faulty variant: the author is not validated.
FieldsMissingMessageOnly(m, a) == Trim(m) = <<>>

\* if (!message.trim() || !author.trim())
FieldsMissing(m, a) == Trim(m) = <<>> \/ Trim(a) = <<>>

\* handleSubmit up to its first await.  The closure keeps the message, author
\* and image of the render in which it was created.
HandleSubmit ==
    IF FieldsMissing(message, author)
    THEN /\ dAlerts' = dAlerts (+) SetToBag({AlertCampos})
         /\ UNCHANGED <<message, author, image, isSubmitting, submits, presses, inserts>>
    ELSE /\ presses < MaxPresses
         /\ isSubmitting' = TRUE
         /\ presses' = presses + 1
         /\ LET h == [message |-> message, author |-> author, image |-> image]
            IN  IF image # NULL
                THEN /\ submits' = Append(submits, [phase |-> "converting", h |-> h])
                     /\ inserts' = inserts
                ELSE /\ submits' = Append(submits,
                            [phase |-> "inserting", h |-> h, row |-> InsertRow(h, NULL)])
                     /\ inserts' = inserts + 1
         /\ UNCHANGED <<message, author, image, dAlerts>>

\* onPress of the submit control, which is not delivered while the control is
\* disabled or a modal alert covers the screen.
PressSubmit ==
    /\ dAlerts = EmptyBag
    /\ ~SubmitDisabled
    /\ HandleSubmit
    /\ UNCHANGED notDiary

\* handleSubmit invoked directly, whatever the state of the control.
CallHandleSubmit ==
    /\ dAlerts = EmptyBag
    /\ Len(submits) < MaxSubmits
    /\ HandleSubmit
    /\ UNCHANGED notDiary

\* imageToBase64 resolves.
ConversionDone(i) ==
    /\ submits[i].phase = "converting"
    /\ submits' = [submits EXCEPT ![i] =
            [phase |-> "inserting", h |-> submits[i].h,
             row |-> InsertRow(submits[i].h, imageToBase64(submits[i].h.image))]]
    /\ inserts' = inserts + 1
    /\ UNCHANGED <<message, author, image, isSubmitting, dAlerts, presses>>
    /\ UNCHANGED notDiary

\* Faulty variant: a failed conversion abandons the submission.
ConversionFailsAborts(i) ==
    /\ submits[i].phase = "converting"
    /\ dAlerts' = dAlerts (+) SetToBag({AlertImagen})
    /\ isSubmitting' = FALSE
    /\ submits' = RemoveAt(submits, i)
    /\ UNCHANGED <<message, author, image, presses, inserts>>
    /\ UNCHANGED notDiary

\* imageToBase64 rejects (fetch or FileReader failed): alert, continue without image.
ConversionFails(i) ==
    /\ submits[i].phase = "converting"
    /\ dAlerts' = dAlerts (+) SetToBag({AlertImagen})
    /\ submits' = [submits EXCEPT ![i] =
            [phase |-> "inserting", h |-> submits[i].h,
             row |-> InsertRow(submits[i].h, NULL)]]
    /\ inserts' = inserts + 1
    /\ UNCHANGED <<message, author, image, isSubmitting, presses>>
    /\ UNCHANGED notDiary

\* The insert resolved without error: confirmation alert, then finally.
InsertSucceeds(i) ==
    /\ submits[i].phase = "inserting"
    /\ dAlerts' = dAlerts (+) SetToBag({AlertEnviada})
    /\ isSubmitting' = FALSE
    /\ submits' = RemoveAt(submits, i)
    /\ UNCHANGED <<message, author, image, presses, inserts>>
    /\ UNCHANGED notDiary

\* Faulty variant: the error path resets the form as the success path does.
InsertReturnsErrorResetsForm(i) ==
    /\ submits[i].phase = "inserting"
    /\ dAlerts' = dAlerts (+) SetToBag({AlertNoEnviada})
    /\ isSubmitting' = FALSE
    /\ submits' = RemoveAt(submits, i)
    /\ message' = <<>>
    /\ author' = <<>>
    /\ UNCHANGED <<image, presses, inserts>>
    /\ UNCHANGED notDiary

\* The insert resolved with { error }: error alert, return, then finally.
InsertReturnsError(i) ==
    /\ submits[i].phase = "inserting"
    /\ dAlerts' = dAlerts (+) SetToBag({AlertNoEnviada})
    /\ isSubmitting' = FALSE
    /\ submits' = RemoveAt(submits, i)
    /\ UNCHANGED <<message, author, image, presses, inserts>>
    /\ UNCHANGED notDiary

\* The insert threw: catch, error alert, then finally.
InsertThrows(i) ==
    /\ submits[i].phase = "inserting"
    /\ dAlerts' = dAlerts (+) SetToBag({AlertInesperado})
    /\ isSubmitting' = FALSE
    /\ submits' = RemoveAt(submits, i)
    /\ UNCHANGED <<message, author, image, presses, inserts>>
    /\ UNCHANGED notDiary

\* Pressing the button of a displayed alert.  Only the confirmation alert
\* carries a callback: setMessage(""), setAuthor("").
AcknowledgeAlert(a) ==
    /\ BagIn(a, dAlerts)
    /\ dAlerts' = dAlerts (-) SetToBag({a})
    /\ IF a = AlertEnviada
       THEN message' = <<>> /\ author' = <<>>
       ELSE UNCHANGED <<message, author>>
    /\ UNCHANGED <<image, isSubmitting, submits, presses, inserts>>
    /\ UNCHANGED notDiary

\* onChangeText of the two inputs.
ChangeAuthor(t) ==
    /\ dAlerts = EmptyBag
    /\ author' = t
    /\ UNCHANGED <<message, image, isSubmitting, submits, dAlerts, presses, inserts>>
    /\ UNCHANGED notDiary

ChangeMessage(t) ==
    /\ dAlerts = EmptyBag
    /\ message' = t
    /\ UNCHANGED <<author, image, isSubmitting, submits, dAlerts, presses, inserts>>
    /\ UNCHANGED notDiary

\* pickImage: permission refused, or a photo chosen in the gallery (a
\* cancelled picker changes nothing).
PickImageDenied ==
    /\ dAlerts = EmptyBag
    /\ dAlerts' = dAlerts (+) SetToBag({AlertPermiso})
    /\ UNCHANGED <<message, author, image, isSubmitting, submits, presses, inserts>>
    /\ UNCHANGED notDiary

PickImageChosen(u) ==
    /\ dAlerts = EmptyBag
    /\ image' = u
    /\ UNCHANGED <<message, author, isSubmitting, submits, dAlerts, presses, inserts>>
    /\ UNCHANGED notDiary

\* The "x" over the preview: setImage(null).
RemoveImage ==
    /\ dAlerts = EmptyBag
    /\ image # NULL
    /\ image' = NULL
    /\ UNCHANGED <<message, author, isSubmitting, submits, dAlerts, presses, inserts>>
    /\ UNCHANGED notDiary

DiaryInit ==
    /\ message = <<>>
    /\ author = <<>>
    /\ image = NULL
    /\ isSubmitting = FALSE
    /\ submits = <<>>
    /\ dAlerts = EmptyBag
    /\ presses = 0
    /\ inserts = 0

FeedIdle ==
    /\ love_letters = <<>>
    /\ now = 0
    /\ letters = <<>>
    /\ loading = TRUE
    /\ refreshing = FALSE
    /\ mounted = FALSE
    /\ requests = {}
    /\ issued = 0
    /\ everShown = {}
    /\ outcome = "none"

ResolveConversionDone == \E i \in 1..Len(submits) : ConversionDone(i)
ResolveConversionFails == \E i \in 1..Len(submits) : ConversionFails(i)
ResolveInsertSucceeds == \E i \in 1..Len(submits) : InsertSucceeds(i)
ResolveInsertReturnsError == \E i \in 1..Len(submits) : InsertReturnsError(i)
ResolveInsertThrows == \E i \in 1..Len(submits) : InsertThrows(i)
TypeAuthor == \E t \in Texts : ChangeAuthor(t)
TypeMessage == \E t \in Texts : ChangeMessage(t)
PickImage == \E u \in Photos : PickImageChosen(u)
PressAlertButton == \E a \in BagToSet(dAlerts) : AcknowledgeAlert(a)

EmptyForm == [name |-> <<>>, description |-> <<>>, spotify_url |-> <<>>]

MusicIdle ==
    /\ music_playlists = <<>>
    /\ playlists = <<>>
    /\ mLoading = TRUE
    /\ mRefreshing = FALSE
    /\ modalVisible = FALSE
    /\ newPlaylist = EmptyForm
    /\ mRequests = {}
    /\ mIssued = 0
    /\ mMounted = FALSE
    /\ mAlerts = EmptyBag

\* Nothing downloaded yet, no dialog of the Feed screen displayed.
DownloadIdle ==
    /\ fAlerts = EmptyBag
    /\ files = <<>>

\* The section screens render no widget of the kit that holds state.
WidgetIdle ==
    /\ wKind = "none"
    /\ wType = "single"
    /\ wDefault = Undefined
    /\ wProp = Undefined
    /\ wDisabled = FALSE
    /\ wState = Undefined
    /\ wCalls = <<>>
    /\ wActs = 0
    /\ wEnabledActs = 0
    /\ wGesture = "none"

\* No element of the kit's compound widgets is being rendered.
NoError == "none"
RenderIdle ==
    /\ rProvided = {}
    /\ rLast = "none"
    /\ rError = NoError

\* The page shows its home section; nothing outlives a screen.
PageIdle ==
    /\ activeSection = "home"
    /\ orphans = <<>>
    /\ downloads = {}
    /\ produced = <<>>

\* No Carousel, InputOTP, Select or ToastProvider is mounted: the variables
\* hold the useState defaults.
CarouselIdle == currentIndex = 0 /\ itemsCount = 0
OTPIdle ==
    /\ maxLength = 4
    /\ internalValue = <<>>
    /\ activeInput = 0
    /\ otpChanges = {}
SelectIdle ==
    /\ selectDisabled = FALSE
    /\ openState = FALSE
    /\ valueState = Undefined
    /\ selectCalls = <<>>
ToastIdle ==
    /\ toasts = <<>>
    /\ timers = {}
    /\ fadeOuts = {}
    /\ added = 0
KitIdle == CarouselIdle /\ OTPIdle /\ SelectIdle /\ ToastIdle

OthersIdle == DownloadIdle /\ WidgetIdle /\ RenderIdle /\ PageIdle /\ KitIdle

InitDiary == DiaryInit /\ FeedIdle /\ MusicIdle /\ OthersIdle

\* The Diary screen as the user drives it.
DiaryNext ==
    \/ PressSubmit
    \/ ResolveConversionDone
    \/ ResolveConversionFails
    \/ ResolveInsertSucceeds
    \/ ResolveInsertReturnsError
    \/ ResolveInsertThrows
    \/ TypeAuthor
    \/ TypeMessage
    \/ PickImageDenied
    \/ PickImage
    \/ RemoveImage
    \/ PressAlertButton

SpecDiary == InitDiary /\ [][DiaryNext]_vars

\* The Diary screen with handleSubmit invoked directly.
HandlerNext ==
    \/ CallHandleSubmit
    \/ ResolveConversionDone
    \/ ResolveConversionFails
    \/ ResolveInsertSucceeds
    \/ ResolveInsertReturnsError
    \/ ResolveInsertThrows
    \/ TypeAuthor
    \/ TypeMessage
    \/ PickImageDenied
    \/ PickImage
    \/ RemoveImage
    \/ PressAlertButton

SpecDiaryHandler == InitDiary /\ [][HandlerNext]_vars


(***************************************************************************)
(* The love_letters table and the Feed screen.                             *)
(***************************************************************************)
Clients == {"c1", "c2"}

\* new Date() on a client: the real time plus the offset of that client's clock.
ClientClock(c, t) == IF c = "c1" THEN t ELSE t - ClockSkew

\* The row a Diary insert of client c adds at real time t; the id is
\* generated by the table, created_at is the value the client sent.
NewLetter(c, t, n) == [id |-> n, created_at |-> ClientClock(c, t)]

\* .order("created_at", { ascending: false }); rows of equal created_at keep
\* their insertion order.
RECURSIVE InsertDesc(_, _)
InsertDesc(r, s) ==
    IF s = <<>> THEN <<r>>
    ELSE IF r.created_at > Head(s).created_at
         THEN <<r>> \o s
         ELSE <<Head(s)>> \o InsertDesc(r, Tail(s))

RECURSIVE OrderByCreatedAtDesc(_)
OrderByCreatedAtDesc(rows) ==
    IF rows = <<>> THEN <<>>
    ELSE InsertDesc(rows[Len(rows)],
                    OrderByCreatedAtDesc(SubSeq(rows, 1, Len(rows) - 1)))

Ids(rows) == {rows[k].id : k \in 1..Len(rows)}

\* A Diary screen of client c inserts a letter (handleSubmit's insert, applied
\* by the store).
InsertLetter(c) ==
    /\ Len(love_letters) < MaxLetters
    /\ now' = now + 1
    /\ love_letters' = Append(love_letters, NewLetter(c, now + 1, Len(love_letters) + 1))
    /\ UNCHANGED <<letters, loading, refreshing, mounted, requests, issued, everShown,
                   outcome>>
    /\ UNCHANGED notFeed

\* fetchLetters up to its await: setLoading(true) and the select request.
\* `known` records how many rows the table held when the request was issued,
\* `before` the list the screen held then.
FetchLetters ==
    /\ issued < MaxFetches
    /\ loading' = TRUE
    /\ issued' = issued + 1
    /\ requests' = requests \cup
          {[seq |-> issued + 1, state |-> "sent", data |-> <<>>,
            known |-> Len(love_letters), before |-> letters]}

\* useEffect(() => { fetchLetters(); }, [fetchLetters])
Mount ==
    /\ ~mounted
    /\ mounted' = TRUE
    /\ FetchLetters
    /\ UNCHANGED <<love_letters, now, letters, refreshing, everShown, outcome>>
    /\ UNCHANGED notFeed

\* onRefresh: setRefreshing(true); fetchLetters()
OnRefresh ==
    /\ mounted
    /\ refreshing' = TRUE
    /\ FetchLetters
    /\ UNCHANGED <<love_letters, now, letters, mounted, everShown, outcome>>
    /\ UNCHANGED notFeed

\* The store answers a select with the rows it holds at that moment.
ServeFetch(r) ==
    /\ r.state = "sent"
    /\ requests' = (requests \ {r}) \cup
          {[r EXCEPT !.state = "served", !.data = OrderByCreatedAtDesc(love_letters)]}
    /\ UNCHANGED <<love_letters, now, letters, loading, refreshing, mounted, issued,
                   everShown, outcome>>
    /\ UNCHANGED notFeed

\* Faulty variant: a request-generation guard drops the data of every response
\* but that of the request issued last.
FetchSucceedsGuarded(r) ==
    /\ r.state = "served"
    /\ letters' = IF r.seq = issued THEN r.data ELSE letters
    /\ loading' = FALSE
    /\ refreshing' = FALSE
    /\ requests' = requests \ {r}
    /\ everShown' = everShown \cup Ids(letters')
    /\ outcome' = "data"
    /\ UNCHANGED <<love_letters, now, mounted, issued>>
    /\ UNCHANGED notFeed

\* The response arrives without error: setLetters(data), then finally.
FetchSucceeds(r) ==
    /\ r.state = "served"
    /\ letters' = r.data
    /\ loading' = FALSE
    /\ refreshing' = FALSE
    /\ requests' = requests \ {r}
    /\ everShown' = everShown \cup Ids(r.data)
    /\ outcome' = "data"
    /\ UNCHANGED <<love_letters, now, mounted, issued>>
    /\ UNCHANGED notFeed

\* Faulty variant: a failed fetch empties the list.
FetchReturnsErrorClearsList(r) ==
    /\ r.state = "sent"
    /\ letters' = <<>>
    /\ loading' = FALSE
    /\ refreshing' = FALSE
    /\ requests' = requests \ {r}
    /\ outcome' = "error"
    /\ UNCHANGED <<love_letters, now, mounted, issued, everShown>>
    /\ UNCHANGED notFeed

\* The response carries { error }: console.error, return, then finally.
FetchReturnsError(r) ==
    /\ r.state = "sent"
    /\ loading' = FALSE
    /\ refreshing' = FALSE
    /\ requests' = requests \ {r}
    /\ outcome' = "error"
    /\ UNCHANGED <<love_letters, now, letters, mounted, issued, everShown>>
    /\ UNCHANGED notFeed

\* Faulty variant: the catch path leaves the loading flag set.
FetchThrowsKeepsLoading(r) ==
    /\ refreshing' = FALSE
    /\ requests' = requests \ {r}
    /\ outcome' = "thrown"
    /\ UNCHANGED <<love_letters, now, letters, loading, mounted, issued, everShown>>
    /\ UNCHANGED notFeed

\* The request throws (network failure, before or after the store answered):
\* catch, then finally.
FetchThrows(r) ==
    /\ loading' = FALSE
    /\ refreshing' = FALSE
    /\ requests' = requests \ {r}
    /\ outcome' = "thrown"
    /\ UNCHANGED <<love_letters, now, letters, mounted, issued, everShown>>
    /\ UNCHANGED notFeed

\* What the screen renders.
SpinnerShown == loading /\ ~refreshing
RefreshControlShown == refreshing
EmptyTextShown == ~(loading /\ ~refreshing) /\ letters = <<>>

DiaryInserts == \E c \in Clients : InsertLetter(c)
StoreServes == \E r \in requests : ServeFetch(r)
ResponseSucceeds == \E r \in requests : FetchSucceeds(r)
ResponseReturnsError == \E r \in requests : FetchReturnsError(r)
ResponseThrows == \E r \in requests : FetchThrows(r)

InitFeed == DiaryInit /\ FeedIdle /\ MusicIdle /\ OthersIdle

FeedNext ==
    \/ Mount
    \/ OnRefresh
    \/ DiaryInserts
    \/ StoreServes
    \/ ResponseSucceeds
    \/ ResponseReturnsError
    \/ ResponseThrows

\* The Feed screen over a table that Diary screens of two clients write.
SpecFeed == InitFeed /\ [][FeedNext]_vars

\* The tables that at most MaxLetters inserts can leave.
StoresOfLen(n) ==
    { [k \in 1..n |-> NewLetter(f[k], k, k)] : f \in [1..n -> Clients] }

InitFeedFixed ==
    /\ DiaryInit
    /\ MusicIdle
    /\ OthersIdle
    /\ love_letters \in UNION {StoresOfLen(n) : n \in 0..MaxLetters}
    /\ now = Len(love_letters)
    /\ letters = <<>>
    /\ loading = TRUE
    /\ refreshing = FALSE
    /\ mounted = FALSE
    /\ requests = {}
    /\ issued = 0
    /\ everShown = {}
    /\ outcome = "none"

FeedFixedNext ==
    \/ Mount
    \/ OnRefresh
    \/ StoreServes
    \/ ResponseSucceeds
    \/ ResponseReturnsError
    \/ ResponseThrows

\* The Feed screen over a table that nothing writes.
SpecFeedFixed == InitFeedFixed /\ [][FeedFixedNext]_vars


(***************************************************************************)
(* The music_playlists table and the Music screen.                         *)
(***************************************************************************)
AlertObligatorios == "El nombre y la URL de Spotify son obligatorios"
AlertUrlInvalida == "Por favor ingresa una URL valida de Spotify"
AlertNoAgregada == "No se pudo agregar la playlist"

PlaylistNames == { <<>>, <<" ">>, <<"R">> }

\* URLs as token sequences; "open.spotify.com" is the two tokens of Marker.
Marker == <<"open.", "spotify.com">>

PlaylistUrls ==
    { <<>>,
      <<"https://", "example.com", "/abc">>,
      <<"spotify.com", "open.">>,
      <<"open.", "spotify.com">>,
      <<"https://", "open.", "spotify.com", "/playlist/xyz">> }

\* String.prototype.includes
Includes(s, m) ==
    \E k \in 0..(Len(s) - Len(m)) : SubSeq(s, k + 1, k + Len(m)) = m

\* !newPlaylist.name || !newPlaylist.spotify_url
RequiredMissing(f) == f.name = <<>> \/ f.spotify_url = <<>>

\* Faulty variant: the marker is not looked for.
NotSpotifyNever(f) == FALSE

\* !newPlaylist.spotify_url.includes("open.spotify.com")
NotSpotify(f) == ~Includes(f.spotify_url, Marker)

\* The row handed to supabase.from("music_playlists").insert; description || null.
PlaylistRow(f) ==
    [name |-> f.name,
     description |-> IF f.description # <<>> THEN f.description ELSE NULL,
     spotify_url |-> f.spotify_url]

\* The select request of fetchPlaylists (its setLoading(true) is written by
\* the callers below, next to what else they write to loading).  by names
\* the caller: the mount effect, onRefresh or handleAddPlaylist.
FetchPlaylists(by) ==
    /\ mIssued < MaxMusicRequests
    /\ mIssued' = mIssued + 1
    /\ mRequests' = mRequests \cup
          {[seq |-> mIssued + 1, kind |-> "select", by |-> by, state |-> "sent",
            data |-> <<>>]}

\* useEffect(() => { fetchPlaylists(); }, [fetchPlaylists])
MusicMount ==
    /\ ~mMounted
    /\ mMounted' = TRUE
    /\ mLoading' = TRUE
    /\ FetchPlaylists("mount")
    /\ UNCHANGED <<music_playlists, playlists, mRefreshing, modalVisible, newPlaylist,
                   mAlerts>>
    /\ UNCHANGED notMusic

\* onRefresh: setRefreshing(true); fetchPlaylists()
MusicOnRefresh ==
    /\ mMounted
    /\ mAlerts = EmptyBag
    /\ ~modalVisible
    /\ mRefreshing' = TRUE
    /\ mLoading' = TRUE
    /\ FetchPlaylists("refresh")
    /\ UNCHANGED <<music_playlists, playlists, modalVisible, newPlaylist, mAlerts,
                   mMounted>>
    /\ UNCHANGED notMusic

\* The store answers a select: newest first (created_at is the table's now()).
Reverse(s) == [k \in 1..Len(s) |-> s[Len(s) + 1 - k]]

ServeSelect(r) ==
    /\ r.kind = "select" /\ r.state = "sent"
    /\ mRequests' = (mRequests \ {r}) \cup
          {[r EXCEPT !.state = "served", !.data = Reverse(music_playlists)]}
    /\ UNCHANGED <<music_playlists, playlists, mLoading, mRefreshing, modalVisible,
                   newPlaylist, mIssued, mMounted, mAlerts>>
    /\ UNCHANGED notMusic

\* The select resolved without error: setPlaylists(data), then finally.
SelectSucceeds(r) ==
    /\ r.kind = "select" /\ r.state = "served"
    /\ playlists' = r.data
    /\ mLoading' = FALSE
    /\ mRefreshing' = FALSE
    /\ mRequests' = mRequests \ {r}
    /\ UNCHANGED <<music_playlists, modalVisible, newPlaylist, mIssued, mMounted, mAlerts>>
    /\ UNCHANGED notMusic

\* Faulty variant: the failure path has no finally block.
SelectFailsNoFinally(r) ==
    /\ r.kind = "select"
    /\ mRequests' = mRequests \ {r}
    /\ UNCHANGED <<music_playlists, playlists, mLoading, mRefreshing, modalVisible,
                   newPlaylist, mIssued, mMounted, mAlerts>>
    /\ UNCHANGED notMusic

\* The select resolved with { error } or threw: console.error, then finally.
SelectFails(r) ==
    /\ r.kind = "select"
    /\ mLoading' = FALSE
    /\ mRefreshing' = FALSE
    /\ mRequests' = mRequests \ {r}
    /\ UNCHANGED <<music_playlists, playlists, modalVisible, newPlaylist, mIssued,
                   mMounted, mAlerts>>
    /\ UNCHANGED notMusic

\* The "Agregar Playlist" button, the modal's close and cancel buttons, its
\* hardware-back request, and the two inputs of the modal.
OpenModal ==
    /\ mMounted
    /\ mAlerts = EmptyBag
    /\ ~modalVisible
    /\ modalVisible' = TRUE
    /\ UNCHANGED <<music_playlists, playlists, mLoading, mRefreshing, newPlaylist,
                   mRequests, mIssued, mMounted, mAlerts>>
    /\ UNCHANGED notMusic

CloseModal ==
    /\ mAlerts = EmptyBag
    /\ modalVisible
    /\ modalVisible' = FALSE
    /\ UNCHANGED <<music_playlists, playlists, mLoading, mRefreshing, newPlaylist,
                   mRequests, mIssued, mMounted, mAlerts>>
    /\ UNCHANGED notMusic

ChangeName(t) ==
    /\ mAlerts = EmptyBag
    /\ modalVisible
    /\ newPlaylist' = [newPlaylist EXCEPT !.name = t]
    /\ UNCHANGED <<music_playlists, playlists, mLoading, mRefreshing, modalVisible,
                   mRequests, mIssued, mMounted, mAlerts>>
    /\ UNCHANGED notMusic

ChangeUrl(u) ==
    /\ mAlerts = EmptyBag
    /\ modalVisible
    /\ newPlaylist' = [newPlaylist EXCEPT !.spotify_url = u]
    /\ UNCHANGED <<music_playlists, playlists, mLoading, mRefreshing, modalVisible,
                   mRequests, mIssued, mMounted, mAlerts>>
    /\ UNCHANGED notMusic

\* handleAddPlaylist up to its await (the "Agregar" button of the modal).
HandleAddPlaylist ==
    /\ mAlerts = EmptyBag
    /\ modalVisible
    /\ IF RequiredMissing(newPlaylist)
       THEN /\ mAlerts' = mAlerts (+) SetToBag({AlertObligatorios})
            /\ UNCHANGED <<mLoading, mRequests, mIssued>>
       ELSE IF NotSpotify(newPlaylist)
       THEN /\ mAlerts' = mAlerts (+) SetToBag({AlertUrlInvalida})
            /\ UNCHANGED <<mLoading, mRequests, mIssued>>
       ELSE /\ mIssued < MaxMusicRequests
            /\ mLoading' = TRUE
            /\ mIssued' = mIssued + 1
            /\ mRequests' = mRequests \cup
                  {[seq |-> mIssued + 1, kind |-> "insert",
                    row |-> PlaylistRow(newPlaylist)]}
            /\ UNCHANGED mAlerts
    /\ UNCHANGED <<music_playlists, playlists, mRefreshing, modalVisible, newPlaylist,
                   mMounted>>
    /\ UNCHANGED notMusic

\* The insert resolved without error: reset the form, close the modal,
\* fetchPlaylists() (setLoading(true) and a select request), then finally
\* (setLoading(false)).
AddSucceeds(r) ==
    /\ r.kind = "insert"
    /\ mIssued < MaxMusicRequests
    /\ music_playlists' = Append(music_playlists,
            [id |-> Len(music_playlists) + 1, name |-> r.row.name,
             spotify_url |-> r.row.spotify_url])
    /\ newPlaylist' = EmptyForm
    /\ modalVisible' = FALSE
    /\ mIssued' = mIssued + 1
    /\ mRequests' = (mRequests \ {r}) \cup
          {[seq |-> mIssued + 1, kind |-> "select", by |-> "add", state |-> "sent",
            data |-> <<>>]}
    /\ mLoading' = FALSE
    /\ UNCHANGED <<playlists, mRefreshing, mMounted, mAlerts>>
    /\ UNCHANGED notMusic

\* Faulty variant: the catch path closes the modal.
AddFailsClosesModal(r) ==
    /\ r.kind = "insert"
    /\ mAlerts' = mAlerts (+) SetToBag({AlertNoAgregada})
    /\ mLoading' = FALSE
    /\ modalVisible' = FALSE
    /\ mRequests' = mRequests \ {r}
    /\ UNCHANGED <<music_playlists, playlists, mRefreshing, newPlaylist,
                   mIssued, mMounted>>
    /\ UNCHANGED notMusic

\* The insert resolved with { error } (throw error) or threw: catch, alert,
\* then finally.
AddFails(r) ==
    /\ r.kind = "insert"
    /\ mAlerts' = mAlerts (+) SetToBag({AlertNoAgregada})
    /\ mLoading' = FALSE
    /\ mRequests' = mRequests \ {r}
    /\ UNCHANGED <<music_playlists, playlists, mRefreshing, modalVisible, newPlaylist,
                   mIssued, mMounted>>
    /\ UNCHANGED notMusic

MusicAcknowledgeAlert(a) ==
    /\ BagIn(a, mAlerts)
    /\ mAlerts' = mAlerts (-) SetToBag({a})
    /\ UNCHANGED <<music_playlists, playlists, mLoading, mRefreshing, modalVisible,
                   newPlaylist, mRequests, mIssued, mMounted>>
    /\ UNCHANGED notMusic

TypeName == \E t \in PlaylistNames : ChangeName(t)
TypeUrl == \E u \in PlaylistUrls : ChangeUrl(u)
MusicStoreServes == \E r \in mRequests : ServeSelect(r)
MusicSelectSucceeds == \E r \in mRequests : SelectSucceeds(r)
MusicSelectFails == \E r \in mRequests : SelectFails(r)
MusicAddSucceeds == \E r \in mRequests : AddSucceeds(r)
MusicAddFails == \E r \in mRequests : AddFails(r)
MusicPressAlertButton == \E a \in BagToSet(mAlerts) : MusicAcknowledgeAlert(a)

InitMusic == DiaryInit /\ FeedIdle /\ MusicIdle /\ OthersIdle

MusicNext ==
    \/ MusicMount
    \/ MusicOnRefresh
    \/ OpenModal
    \/ CloseModal
    \/ TypeName
    \/ TypeUrl
    \/ HandleAddPlaylist
    \/ MusicStoreServes
    \/ MusicSelectSucceeds
    \/ MusicSelectFails
    \/ MusicAddSucceeds
    \/ MusicAddFails
    \/ MusicPressAlertButton

SpecMusic == InitMusic /\ [][MusicNext]_vars

(***************************************************************************)
(* The Feed or the Music screen as the one section that Index shows, with  *)
(* a store that answers every request and responses that all arrive.       *)
(***************************************************************************)
\* renderSection mounts one section: the Feed's mount effect runs in a page
\* that shows no Music screen, and the other way round.
ScreenFeedMount == ~mMounted /\ Mount
ScreenMusicMount == ~mounted /\ MusicMount

\* The modal's inputs, with the one name and the one URL typed here.
ScreenTypeName == ChangeName(<<"R">>)
ScreenTypeUrl ==
    ChangeUrl(<<"https://", "open.", "spotify.com", "/playlist/xyz">>)

ResponseResolves == ResponseSucceeds \/ ResponseReturnsError \/ ResponseThrows
MusicResponseResolves ==
    MusicSelectSucceeds \/ MusicSelectFails \/ MusicAddSucceeds \/ MusicAddFails

ScreensNext ==
    \/ ScreenFeedMount
    \/ OnRefresh
    \/ StoreServes
    \/ ResponseSucceeds
    \/ ResponseReturnsError
    \/ ResponseThrows
    \/ ScreenMusicMount
    \/ MusicOnRefresh
    \/ OpenModal
    \/ CloseModal
    \/ ScreenTypeName
    \/ ScreenTypeUrl
    \/ HandleAddPlaylist
    \/ MusicStoreServes
    \/ MusicSelectSucceeds
    \/ MusicSelectFails
    \/ MusicAddSucceeds
    \/ MusicAddFails
    \/ MusicPressAlertButton

\* The love_letters table holds no letter or one letter when the page opens.
InitScreens == InitFeedFixed /\ Len(love_letters) <= 1

\* Every request that was issued is answered and its response resolves the
\* awaiting handler; the gestures of the user are under no obligation.
ScreensFairness ==
    /\ WF_vars(StoreServes)
    /\ WF_vars(ResponseResolves)
    /\ WF_vars(MusicStoreServes)
    /\ WF_vars(MusicResponseResolves)

SpecScreens == InitScreens /\ [][ScreensNext]_vars /\ ScreensFairness

(***************************************************************************)
(* The widgets of the component kit that take a controlled value prop and  *)
(* a default: Toggle, Switch, Checkbox, Collapsible, Dialog, Drawer, Tabs, *)
(* ToggleGroup, Accordion.  One widget is rendered by a parent that        *)
(* supplies the props and receives the change callback.                    *)
(***************************************************************************)
PressWidgets == {"Toggle", "Switch", "Checkbox"}
TriggerWidgets == {"Collapsible", "Dialog", "Drawer"}
ModalWidgets == {"Dialog", "Drawer"}
ItemWidgets == {"Tabs", "ToggleGroup", "Accordion"}
Widgets == PressWidgets \cup TriggerWidgets \cup ItemWidgets

\* The values of the items (tabs, toggle-group items, accordion items).
Items == {"a", "b"}

Bools == {Bool(FALSE), Bool(TRUE)}
Strs == {Str("")} \cup {Str(i) : i \in Items}
Arrs == {Arr(<<>>), Arr(<<"a">>), Arr(<<"b">>), Arr(<<"a", "b">>), Arr(<<"b", "a">>)}

\* The values the value prop and the default of a widget can take.
ValuesOf(k) ==
    IF k \in PressWidgets \cup TriggerWidgets THEN Bools
    ELSE IF k = "Tabs" THEN Strs
    ELSE IF k = "ToggleGroup" THEN Arrs
    ELSE Strs \cup Arrs

\* Array.prototype.includes and filter(item => item !== value)
IncludesItem(a, v) == \E k \in 1..Len(a) : a[k] = v
FilterOut(a, v) == SelectSeq(a, LAMBDA x : x # v)

\* pressed !== undefined ? pressed : isPressedState  (and its namesakes:
\* checked, checkedState, openState, activeValue, valueArray, currentValue)
Resolved == IF wProp # Undefined THEN wProp ELSE wState

\* Faulty variant: the widget writes its own state in controlled mode too.
HandleChangeAlwaysWrites(newValue) ==
    /\ wState' = newValue
    /\ wCalls' = Append(wCalls, newValue)

\* The tail shared by the change handlers: the widget writes its own state
\* only when the prop is absent, then calls the callback.
HandleChange(newValue) ==
    /\ wState' = IF wProp = Undefined THEN newValue ELSE wState
    /\ wCalls' = Append(wCalls, newValue)

\* Faulty variant: a disabled widget still runs its change handler.
ActivationIgnoresDisabled(g, disabled, newValue) ==
    /\ wActs < MaxActivations
    /\ wActs' = wActs + 1
    /\ wGesture' = g
    /\ HandleChange(newValue)
    /\ wEnabledActs' = IF disabled THEN wEnabledActs ELSE wEnabledActs + 1
    /\ UNCHANGED <<wKind, wType, wDefault, wProp, wDisabled>>
    /\ UNCHANGED notWidget

\* One user activation of control g: `if (disabled) return;`, else the
\* handler proposes newValue.
Activation(g, disabled, newValue) ==
    /\ wActs < MaxActivations
    /\ wActs' = wActs + 1
    /\ wGesture' = g
    /\ IF disabled
       THEN UNCHANGED <<wState, wCalls, wEnabledActs>>
       ELSE /\ HandleChange(newValue)
            /\ wEnabledActs' = wEnabledActs + 1
    /\ UNCHANGED <<wKind, wType, wDefault, wProp, wDisabled>>
    /\ UNCHANGED notWidget

\* Toggle.handlePress
ToggleHandlePress ==
    /\ wKind = "Toggle"
    /\ Activation("press", wDisabled, Bool(~Resolved.on))

\* Switch.handleToggle
SwitchHandleToggle ==
    /\ wKind = "Switch"
    /\ Activation("press", wDisabled, Bool(~Resolved.on))

\* Checkbox.handlePress
CheckboxHandlePress ==
    /\ wKind = "Checkbox"
    /\ Activation("press", wDisabled, Bool(~Resolved.on))

\* CollapsibleTrigger.handlePress: setOpen(!open), through the root's
\* handleOpenChange; disabled is the trigger's or the root's prop.
CollapsibleTriggerPress ==
    /\ wKind = "Collapsible"
    /\ Activation("trigger", wDisabled, Bool(~Resolved.on))

\* DialogTrigger.handlePress and DrawerTrigger.handlePress: setOpen(!open).
DialogTriggerPress ==
    /\ wKind = "Dialog"
    /\ Activation("trigger", wDisabled, Bool(~Resolved.on))

DrawerTriggerPress ==
    /\ wKind = "Drawer"
    /\ Activation("trigger", wDisabled, Bool(~Resolved.on))

\* DialogClose, DialogOverlay, DrawerClose, DrawerOverlay and the drawer's
\* swipe-down release: setOpen(false).  They are inside the Modal, which is
\* visible only while the widget is open, and take no disabled prop.
ModalClosePress ==
    /\ wKind \in ModalWidgets
    /\ Resolved.on
    /\ Activation("close", FALSE, Bool(FALSE))

\* TabsTrigger.handlePress: onValueChange(value)
TabsTriggerPress(v) ==
    /\ wKind = "Tabs"
    /\ Activation(v, wDisabled, Str(v))

\* Faulty variant: the group's type is not looked at.
ToggleGroupNewValueAnyType(v) ==
    LET groupValue == Resolved.items
    IN  IF IncludesItem(groupValue, v)
        THEN Arr(FilterOut(groupValue, v))
        ELSE Arr(Append(groupValue, v))

\* ToggleGroupItem.handlePress
ToggleGroupNewValue(v) ==
    LET groupValue == Resolved.items
        isPressed == IncludesItem(groupValue, v)
    IN  IF wType = "single"
        THEN IF isPressed THEN Arr(<<>>) ELSE Arr(<<v>>)
        ELSE IF isPressed THEN Arr(FilterOut(groupValue, v))
             ELSE Arr(Append(groupValue, v))

ToggleGroupItemPress(v) ==
    /\ wKind = "ToggleGroup"
    /\ Activation(v, wDisabled, ToggleGroupNewValue(v))

\* Accordion.toggleItem (the accordion takes no disabled prop)
AccordionNewValue(itemValue) ==
    LET currentValue == Resolved
    IN  IF wType = "single"
        THEN IF currentValue = Str(itemValue) THEN Str("") ELSE Str(itemValue)
        ELSE IF currentValue.tag = "array"
             THEN IF IncludesItem(currentValue.items, itemValue)
                  THEN Arr(FilterOut(currentValue.items, itemValue))
                  ELSE Arr(Append(currentValue.items, itemValue))
             ELSE Arr(<<itemValue>>)

AccordionToggleItem(v) ==
    /\ wKind = "Accordion"
    /\ Activation(v, FALSE, AccordionNewValue(v))

\* The parent re-renders the widget with another value prop (following the
\* callback or not), or with another disabled prop.
ParentSetsProp(v) ==
    /\ wProp # Undefined
    /\ v # wProp
    /\ wProp' = v
    /\ UNCHANGED <<wKind, wType, wDefault, wDisabled, wState, wCalls, wActs,
                   wEnabledActs, wGesture>>
    /\ UNCHANGED notWidget

ParentSetsDisabled ==
    /\ wKind # "Accordion"
    /\ wDisabled' = ~wDisabled
    /\ UNCHANGED <<wKind, wType, wDefault, wProp, wState, wCalls, wActs,
                   wEnabledActs, wGesture>>
    /\ UNCHANGED notWidget

PressTab == \E v \in Items : TabsTriggerPress(v)
PressGroupItem == \E v \in Items : ToggleGroupItemPress(v)
PressAccordionTrigger == \E v \in Items : AccordionToggleItem(v)
ParentChangesValue == \E v \in ValuesOf(wKind) : ParentSetsProp(v)

\* The widget as mounted: useState(default); the default is the prop's own
\* default (false, "", []) when the parent gives none.
InitWidget ==
    /\ DiaryInit /\ FeedIdle /\ MusicIdle /\ DownloadIdle /\ RenderIdle /\ PageIdle
    /\ KitIdle
    /\ wKind \in Widgets
    /\ wType \in (IF wKind \in {"ToggleGroup", "Accordion"}
                  THEN {"single", "multiple"} ELSE {"single"})
    /\ wDefault \in ValuesOf(wKind)
    /\ wProp \in ValuesOf(wKind) \cup {Undefined}
    /\ wDisabled \in (IF wKind = "Accordion" THEN {FALSE} ELSE BOOLEAN)
    /\ wState = wDefault
    /\ wCalls = <<>>
    /\ wActs = 0
    /\ wEnabledActs = 0
    /\ wGesture = "none"

WidgetNext ==
    \/ ToggleHandlePress
    \/ SwitchHandleToggle
    \/ CheckboxHandlePress
    \/ CollapsibleTriggerPress
    \/ DialogTriggerPress
    \/ DrawerTriggerPress
    \/ ModalClosePress
    \/ PressTab
    \/ PressGroupItem
    \/ PressAccordionTrigger
    \/ ParentChangesValue
    \/ ParentSetsDisabled

SpecWidget == InitWidget /\ [][WidgetNext]_vars

(***************************************************************************)
(* A ToggleGroup whose items carry their own disabled prop.                *)
(***************************************************************************)
\* ToggleGroupItem: isDisabled = groupDisabled || itemDisabled, handlePress.
ToggleGroupItemHandlePress(v, itemDisabled) ==
    /\ wKind = "ToggleGroup"
    /\ Activation(v, wDisabled \/ itemDisabled, ToggleGroupNewValue(v))

PressItemOfGroup ==
    \E v \in Items, itemDisabled \in BOOLEAN :
        ToggleGroupItemHandlePress(v, itemDisabled)

InitToggleGroup == InitWidget /\ wKind = "ToggleGroup"

ToggleGroupNext ==
    \/ PressItemOfGroup
    \/ ParentChangesValue
    \/ ParentSetsDisabled

SpecToggleGroup == InitToggleGroup /\ [][ToggleGroupNext]_vars

(***************************************************************************)
(* An uncontrolled Accordion.                                              *)
(***************************************************************************)
\* Accordion.isItemOpen
isItemOpen(itemValue) ==
    IF Resolved.tag = "array"
    THEN IncludesItem(Resolved.items, itemValue)
    ELSE Resolved = Str(itemValue)

\* The items whose AccordionContent is rendered.
OpenItems == {i \in Items : isItemOpen(i)}

\* The type and the default are props the parent chooses freely: defaultValue
\* is typed string | string[] for either type.
InitAccordion == InitWidget /\ wKind = "Accordion" /\ wProp = Undefined

AccordionNext == PressAccordionTrigger

SpecAccordion == InitAccordion /\ [][AccordionNext]_vars

(***************************************************************************)
(* AlertDialog.  `open = false` is a parameter default, so the component    *)
(* always sees a boolean prop; isOpen is useState(open).                   *)
(***************************************************************************)
\* handleOpenChange: setIsOpen(value); onOpenChange?.(value)
AlertDialogHandleOpenChange(g, value) ==
    /\ wKind = "AlertDialog"
    /\ wActs < MaxActivations
    /\ wActs' = wActs + 1
    /\ wEnabledActs' = wEnabledActs + 1
    /\ wGesture' = g
    /\ wState' = Bool(value)
    /\ wCalls' = Append(wCalls, Bool(value))
    /\ UNCHANGED <<wKind, wType, wDefault, wProp, wDisabled>>
    /\ UNCHANGED notWidget

\* AlertDialogTrigger.handlePress: setOpen(true)
AlertDialogTriggerPress ==
    /\ wKind = "AlertDialog"
    /\ AlertDialogHandleOpenChange("trigger", TRUE)

\* AlertDialogContent returns null unless the context's open is true, so the
\* action, the cancel button and the overlay exist only while isOpen.
AlertDialogActionPress ==
    /\ wState.on
    /\ AlertDialogHandleOpenChange("action", FALSE)

AlertDialogCancelPress ==
    /\ wState.on
    /\ AlertDialogHandleOpenChange("cancel", FALSE)

\* The overlay's onPress: setOpen(false)
AlertDialogOverlayPress ==
    /\ wState.on
    /\ AlertDialogHandleOpenChange("overlay", FALSE)

\* The Modal's onRequestClose (hardware back): setOpen(false)
AlertDialogRequestClose ==
    /\ wState.on
    /\ AlertDialogHandleOpenChange("back", FALSE)

\* The parent re-renders with another open prop; the effect on [open] then
\* runs setIsOpen(open).  A re-render with the same prop runs no effect.
AlertDialogParentSetsOpen ==
    /\ wKind = "AlertDialog"
    /\ wProp' = Bool(~wProp.on)
    /\ wState' = wProp'
    /\ UNCHANGED <<wKind, wType, wDefault, wDisabled, wCalls, wActs, wEnabledActs,
                   wGesture>>
    /\ UNCHANGED notWidget

InitAlertDialog ==
    /\ DiaryInit /\ FeedIdle /\ MusicIdle /\ DownloadIdle /\ RenderIdle /\ PageIdle
    /\ KitIdle
    /\ wKind = "AlertDialog"
    /\ wType = "single"
    /\ wDefault = Undefined
    /\ wProp \in Bools
    /\ wDisabled = FALSE
    /\ wState = wProp
    /\ wCalls = <<>>
    /\ wActs = 0
    /\ wEnabledActs = 0
    /\ wGesture = "none"

AlertDialogNext ==
    \/ AlertDialogTriggerPress
    \/ AlertDialogActionPress
    \/ AlertDialogCancelPress
    \/ AlertDialogOverlayPress
    \/ AlertDialogRequestClose
    \/ AlertDialogParentSetsOpen

SpecAlertDialog == InitAlertDialog /\ [][AlertDialogNext]_vars

(***************************************************************************)
(* Rendering the compound widgets of the component kit: a sub-component    *)
(* reads the context of its widget with React.useContext, which yields the *)
(* value of the nearest enclosing Provider or, without one, the default    *)
(* the context was created with.                                           *)
(***************************************************************************)
Components ==
    {"Accordion", "AccordionItem", "AccordionTrigger", "AccordionContent",
     "Tabs", "TabsList", "TabsTrigger", "TabsContent",
     "Select", "SelectTrigger", "SelectValue", "SelectContent", "SelectItem",
     "Drawer", "DrawerTrigger", "DrawerPortal", "DrawerOverlay", "DrawerClose",
     "DrawerContent", "DrawerHeader", "DrawerFooter", "DrawerTitle",
     "DrawerDescription",
     "Dialog", "DialogTrigger", "DialogPortal", "DialogOverlay",
     "DialogContent", "DialogClose", "DialogHeader", "DialogFooter",
     "DialogTitle", "DialogDescription",
     "Collapsible", "CollapsibleTrigger", "CollapsibleContent",
     "Carousel", "CarouselContent", "CarouselItem", "CarouselPrevious",
     "CarouselNext",
     "ToggleGroup", "ToggleGroupItem",
     "InputOTP", "InputOTPGroup", "InputOTPSlot", "InputOTPSeparator",
     "ToastProvider", "Toaster",
     "AlertDialog", "AlertDialogTrigger", "AlertDialogContent",
     "AlertDialogAction", "AlertDialogCancel",
     "Avatar", "AvatarImage", "AvatarFallback"}

\* React.createContext(default): the kind of value each context is created
\* with.
ContextDefault ==
    [AccordionContext |-> "null",
     AccordionItemContext |-> "null",
     TabsContext |-> "undefined",
     SelectContext |-> "undefined",
     DrawerContext |-> "undefined",
     DialogContext |-> "undefined",
     CollapsibleContext |-> "undefined",
     CarouselContext |-> "null",
     ToggleGroupContext |-> "undefined",
     OTPContext |-> "undefined",
     ToastContext |-> "object",
     AlertDialogContext |-> "object",
     AvatarContext |-> "object"]

Contexts == DOMAIN ContextDefault

\* <Context.Provider value={{ ... }}>: the context each component provides to
\* its children, always with an object as the value.
Provides(c) ==
    CASE c = "Accordion" -> {"AccordionContext"}
      [] c = "AccordionItem" -> {"AccordionItemContext"}
      [] c = "Tabs" -> {"TabsContext"}
      [] c = "Select" -> {"SelectContext"}
      [] c = "Drawer" -> {"DrawerContext"}
      [] c = "Dialog" -> {"DialogContext"}
      [] c = "Collapsible" -> {"CollapsibleContext"}
      [] c = "Carousel" -> {"CarouselContext"}
      [] c = "ToggleGroup" -> {"ToggleGroupContext"}
      [] c = "InputOTP" -> {"OTPContext"}
      [] c = "ToastProvider" -> {"ToastContext"}
      [] c = "AlertDialog" -> {"AlertDialogContext"}
      [] c = "Avatar" -> {"AvatarContext"}
      [] OTHER -> {}

UseContextAnyValue(ctx, provided) == "object"

\* React.useContext(ctx) under the given enclosing providers.
UseContext(ctx, provided) ==
    IF ctx \in provided THEN "object" ELSE ContextDefault[ctx]

\* !context
Not(value) == value \in {"null", "undefined"}

\* if (!context) throw new Error(message)
Check(ctx, provided, text) ==
    IF Not(UseContext(ctx, provided)) THEN text ELSE NoError

\* const { ... } = React.useContext(ctx), with no check
Destructure(ctx, provided) ==
    IF Not(UseContext(ctx, provided)) THEN "TypeError" ELSE NoError

useTabsContext(provided) ==
    Check("TabsContext", provided,
          "Tabs components must be used within a Tabs provider")

useSelectContext(provided) ==
    Check("SelectContext", provided,
          "Select components must be used within a SelectProvider")

useDrawerContext(provided) ==
    Check("DrawerContext", provided,
          "Drawer components must be used within a Drawer component")

useDialogContext(provided) ==
    Check("DialogContext", provided,
          "Dialog components must be used within a Dialog component")

useCollapsibleContext(provided) ==
    Check("CollapsibleContext", provided,
          "Collapsible components must be used within a Collapsible component")

useCarousel(provided) ==
    Check("CarouselContext", provided,
          "useCarousel must be used within a <Carousel />")

useToggleGroupContext(provided) ==
    Check("ToggleGroupContext", provided,
          "ToggleGroupItem must be used within a ToggleGroup")

useOTPContext(provided) ==
    Check("OTPContext", provided,
          "OTP components must be used within an OTP provider")

useToast(provided) ==
    Check("ToastContext", provided,
          "useToast must be used within a ToastProvider")

AccordionItem(provided) ==
    Check("AccordionContext", provided,
          "AccordionItem must be used within an Accordion")

\* if (!accordionContext || !itemContext) throw ...
AccordionTrigger(provided) ==
    IF \/ Not(UseContext("AccordionContext", provided))
       \/ Not(UseContext("AccordionItemContext", provided))
    THEN "AccordionTrigger must be used within an AccordionItem"
    ELSE NoError

AccordionContent(provided) ==
    Check("AccordionItemContext", provided,
          "AccordionContent must be used within an AccordionItem")

\* The error the function of component c throws when it runs under the given
\* providers, or NoError.
Render(c, provided) ==
    CASE c = "AccordionItem" -> AccordionItem(provided)
      [] c = "AccordionTrigger" -> AccordionTrigger(provided)
      [] c = "AccordionContent" -> AccordionContent(provided)
      [] c \in {"TabsList", "TabsTrigger", "TabsContent"} ->
            useTabsContext(provided)
      [] c \in {"SelectTrigger", "SelectValue", "SelectContent", "SelectItem"} ->
            useSelectContext(provided)
      [] c \in {"DrawerTrigger", "DrawerPortal", "DrawerOverlay", "DrawerClose",
                "DrawerContent"} ->
            useDrawerContext(provided)
      [] c \in {"DialogTrigger", "DialogPortal", "DialogOverlay",
                "DialogContent", "DialogClose"} ->
            useDialogContext(provided)
      [] c \in {"CollapsibleTrigger", "CollapsibleContent"} ->
            useCollapsibleContext(provided)
      [] c \in {"CarouselContent", "CarouselItem", "CarouselPrevious",
                "CarouselNext"} ->
            useCarousel(provided)
      [] c = "ToggleGroupItem" -> useToggleGroupContext(provided)
      [] c = "InputOTPSlot" -> useOTPContext(provided)
      [] c = "Toaster" -> useToast(provided)
      [] c \in {"AlertDialogTrigger", "AlertDialogContent", "AlertDialogAction",
                "AlertDialogCancel"} ->
            Destructure("AlertDialogContext", provided)
      [] c \in {"AvatarImage", "AvatarFallback"} ->
            Destructure("AvatarContext", provided)
      [] OTHER -> NoError

\* React calls the function of a component placed under the current
\* ancestors.  A render that throws is not caught by anything in the
\* application: nothing more is rendered until the root is mounted again.
RenderComponent(c) ==
    /\ rError = NoError
    /\ rLast' = c
    /\ rError' = Render(c, rProvided)
    /\ UNCHANGED rProvided
    /\ UNCHANGED notRender

RenderElement == \E c \in Components : RenderComponent(c)

\* React goes on to the children of the element that has just rendered: they
\* are inside whatever it provides.
RenderChildren ==
    /\ rError = NoError
    /\ rLast # "none"
    /\ Cardinality(rProvided \cup Provides(rLast)) <= MaxNesting
    /\ rProvided' = rProvided \cup Provides(rLast)
    /\ rLast' = "none"
    /\ UNCHANGED rError
    /\ UNCHANGED notRender

\* The root is mounted again (the application is restarted, or another screen
\* is rendered from the top).
Remount ==
    /\ rLast # "none"
    /\ rProvided' = {}
    /\ rLast' = "none"
    /\ rError' = NoError
    /\ UNCHANGED notRender

InitRender == DiaryInit /\ FeedIdle /\ MusicIdle /\ OthersIdle

RenderNext ==
    \/ RenderElement
    \/ RenderChildren
    \/ Remount

SpecRender == InitRender /\ [][RenderNext]_vars

(***************************************************************************)
(* The application as a whole: the page that shows one section at a time,  *)
(* the Diary screen writing love_letters through the store, the Feed       *)
(* screen reading it, and the download of a letter's photo.                *)
(***************************************************************************)
Sections == {"home", "music", "diary", "feed"}

AlertGuardada == "Imagen guardada"
AlertNoDescargada == "No se pudo descargar la imagen"
\* The confirmation alert of a handleSubmit whose screen has been unmounted:
\* its button calls the setters of a component instance that is gone.
AlertEnviadaUnmounted == "Carta enviada (screen unmounted)"

NoAlertShown == dAlerts = EmptyBag /\ fAlerts = EmptyBag

\* setActiveSection(s): the section shown is unmounted and section s mounted
\* in its place.  The state of the unmounted screen is gone (the next mount
\* starts from the useState defaults); a handleSubmit that is under way runs
\* on, the responses of the Feed's requests find no component to update.
Navigate(s) ==
    /\ NoAlertShown
    /\ s # activeSection
    /\ activeSection' = s
    /\ IF activeSection = "diary"
       THEN /\ message' = <<>>
            /\ author' = <<>>
            /\ image' = NULL
            /\ isSubmitting' = FALSE
            /\ submits' = <<>>
            /\ orphans' = orphans \o submits
       ELSE UNCHANGED <<message, author, image, isSubmitting, submits, orphans>>
    /\ IF activeSection = "feed"
       THEN /\ letters' = <<>>
            /\ loading' = TRUE
            /\ refreshing' = FALSE
            /\ mounted' = FALSE
            /\ requests' = {}
       ELSE UNCHANGED <<letters, loading, refreshing, mounted, requests>>
    /\ UNCHANGED <<dAlerts, presses, inserts, love_letters, now, issued, everShown,
                   outcome, downloads, produced>>
    /\ UNCHANGED <<mvars, xvars, wvars, rvars, kvars>>

PressNavigation == \E s \in Sections : Navigate(s)

\* The Diary screen while it is the section shown.
LetterTexts == { <<"a">> }
DiaryTypeAuthor == activeSection = "diary" /\ \E t \in LetterTexts : ChangeAuthor(t)
DiaryTypeMessage == activeSection = "diary" /\ \E t \in LetterTexts : ChangeMessage(t)
DiaryPickImage == activeSection = "diary" /\ PickImageChosen(<<"file://photo1.jpg">>)
DiaryPressSubmit == activeSection = "diary" /\ presses < MaxAppPresses /\ PressSubmit
DiaryConversionDone == activeSection = "diary" /\ ResolveConversionDone
DiaryConversionFails == activeSection = "diary" /\ ResolveConversionFails

\* Faulty variant: the insert is executed twice.
ExecuteInsertTwice(h, row) ==
    /\ Len(love_letters) + 1 < MaxLetters
    /\ now' = now + 1
    /\ love_letters' = love_letters \o
          << [id |-> Len(love_letters) + 1, created_at |-> now + 1,
              message |-> row.message, author |-> row.author,
              image_url |-> row.image_url],
             [id |-> Len(love_letters) + 2, created_at |-> now + 1,
              message |-> row.message, author |-> row.author,
              image_url |-> row.image_url] >>
    /\ produced' = produced

\* The table executes an insert: the row gets the next id; created_at is the
\* value the client sent.  `produced` keeps, for a row with a photo, the
\* payload the conversion returned.
ExecuteInsert(h, row) ==
    /\ Len(love_letters) < MaxLetters
    /\ now' = now + 1
    /\ love_letters' = Append(love_letters,
          [id |-> Len(love_letters) + 1, created_at |-> now + 1,
           message |-> row.message, author |-> row.author,
           image_url |-> row.image_url])
    /\ produced' =
          IF row.image_url # NULL
          THEN [n \in DOMAIN produced \cup {Len(love_letters) + 1} |->
                   IF n = Len(love_letters) + 1 THEN imageToBase64(h.image)
                   ELSE produced[n]]
          ELSE produced

Executed(s) ==
    [phase |-> "inserting", h |-> s.h, row |-> s.row, stored |-> TRUE]

IsExecuted(s) == "stored" \in DOMAIN s

\* The store receives and executes the insert of a running handleSubmit.
StoreInserts(i) ==
    /\ submits[i].phase = "inserting"
    /\ ~IsExecuted(submits[i])
    /\ ExecuteInsert(submits[i].h, submits[i].row)
    /\ submits' = [submits EXCEPT ![i] = Executed(submits[i])]
    /\ UNCHANGED <<message, author, image, isSubmitting, dAlerts, presses, inserts>>
    /\ UNCHANGED <<letters, loading, refreshing, mounted, requests, issued,
                   everShown, outcome>>
    /\ UNCHANGED <<activeSection, orphans, downloads>>
    /\ UNCHANGED <<mvars, xvars, wvars, rvars, kvars>>

StoreExecutesInsert == \E i \in 1..Len(submits) : StoreInserts(i)

\* The responses of the insert: success once the store has executed it, an
\* error when it refused it, an exception when the connection failed (before
\* or after the store executed it).
DiaryInsertSucceeds ==
    \E i \in 1..Len(submits) : IsExecuted(submits[i]) /\ InsertSucceeds(i)

DiaryInsertReturnsError ==
    \E i \in 1..Len(submits) : ~IsExecuted(submits[i]) /\ InsertReturnsError(i)

DiaryInsertThrows == activeSection = "diary" /\ ResolveInsertThrows

\* A handleSubmit whose screen was unmounted goes on: its setState calls do
\* nothing, its requests and its alerts are as before.
OrphanConversionDone(i) ==
    /\ orphans[i].phase = "converting"
    /\ orphans' = [orphans EXCEPT ![i] =
          [phase |-> "inserting", h |-> orphans[i].h,
           row |-> InsertRow(orphans[i].h, imageToBase64(orphans[i].h.image))]]
    /\ inserts' = inserts + 1
    /\ UNCHANGED <<message, author, image, isSubmitting, submits, dAlerts, presses>>
    /\ UNCHANGED <<activeSection, downloads, produced>>
    /\ UNCHANGED <<fvars, mvars, xvars, wvars, rvars, kvars>>

OrphanConversionFails(i) ==
    /\ orphans[i].phase = "converting"
    /\ dAlerts' = dAlerts (+) SetToBag({AlertImagen})
    /\ orphans' = [orphans EXCEPT ![i] =
          [phase |-> "inserting", h |-> orphans[i].h,
           row |-> InsertRow(orphans[i].h, NULL)]]
    /\ inserts' = inserts + 1
    /\ UNCHANGED <<message, author, image, isSubmitting, submits, presses>>
    /\ UNCHANGED <<activeSection, downloads, produced>>
    /\ UNCHANGED <<fvars, mvars, xvars, wvars, rvars, kvars>>

OrphanStoreInserts(i) ==
    /\ orphans[i].phase = "inserting"
    /\ ~IsExecuted(orphans[i])
    /\ ExecuteInsert(orphans[i].h, orphans[i].row)
    /\ orphans' = [orphans EXCEPT ![i] = Executed(orphans[i])]
    /\ UNCHANGED dvars
    /\ UNCHANGED <<letters, loading, refreshing, mounted, requests, issued,
                   everShown, outcome>>
    /\ UNCHANGED <<activeSection, downloads>>
    /\ UNCHANGED <<mvars, xvars, wvars, rvars, kvars>>

\* The insert of an unmounted screen resolves: the alert of its outcome.
OrphanInsertResolves(i, a) ==
    /\ orphans[i].phase = "inserting"
    /\ a = AlertEnviadaUnmounted => IsExecuted(orphans[i])
    /\ a = AlertNoEnviada => ~IsExecuted(orphans[i])
    /\ dAlerts' = dAlerts (+) SetToBag({a})
    /\ orphans' = RemoveAt(orphans, i)
    /\ UNCHANGED <<message, author, image, isSubmitting, submits, presses, inserts>>
    /\ UNCHANGED <<activeSection, downloads, produced>>
    /\ UNCHANGED <<fvars, mvars, xvars, wvars, rvars, kvars>>

UnmountedConversionDone == \E i \in 1..Len(orphans) : OrphanConversionDone(i)
UnmountedConversionFails == \E i \in 1..Len(orphans) : OrphanConversionFails(i)
UnmountedStoreInserts == \E i \in 1..Len(orphans) : OrphanStoreInserts(i)
UnmountedInsertResolves ==
    \E i \in 1..Len(orphans) :
        \E a \in {AlertEnviadaUnmounted, AlertNoEnviada, AlertInesperado} :
            OrphanInsertResolves(i, a)

\* The Feed screen while it is the section shown.
FeedMount == activeSection = "feed" /\ issued < MaxAppFetches /\ Mount
FeedOnRefresh ==
    activeSection = "feed" /\ issued < MaxAppFetches /\ NoAlertShown /\ OnRefresh

\* `carta-${letter.id}.jpg`
FileName(id) == <<"carta-", id, ".jpg">>

\* imageUrl.startsWith('data:')
StartsWithData(imageUrl) ==
    imageUrl # <<>> /\ Head(imageUrl) = "data:image/jpeg;base64"

\* What createDownloadResumable(imageUrl, ...) fetches from an external URL.
RemoteContent(imageUrl) == <<"content of">> \o imageUrl

DownloadPayloadWhole(imageUrl) == imageUrl

\* imageUrl.split(',')[1]
DownloadPayload(imageUrl) == SplitSecond(imageUrl)

\* handleDownloadImage up to its first await: the write of the payload of a
\* data URI, or the download of an external URL, into documentDirectory.
HandleDownloadImage(imageUrl, filename) ==
    downloads' = downloads \cup
        {[fileUri |-> filename,
          data |-> IF StartsWithData(imageUrl)
                   THEN DownloadPayload(imageUrl)
                   ELSE RemoteContent(imageUrl)]}

\* onPress of the download control, rendered for a letter with an image_url.
PressDownload(k) ==
    /\ activeSection = "feed"
    /\ NoAlertShown
    /\ letters[k].image_url # NULL
    /\ HandleDownloadImage(letters[k].image_url, FileName(letters[k].id))
    /\ UNCHANGED <<activeSection, orphans, produced>>
    /\ UNCHANGED <<dvars, fvars, mvars, xvars, wvars, rvars, kvars>>

PressDownloadControl == \E k \in 1..Len(letters) : PressDownload(k)

\* FileSystem.writeAsStringAsync(fileUri, data)
Written(fs, fileUri, data) ==
    [f \in DOMAIN fs \cup {fileUri} |-> IF f = fileUri THEN data ELSE fs[f]]

\* The file is written; then the share sheet or the Android toast (no
\* dialog), or the dialog 'Imagen guardada'.
DownloadResolves(d, dialog) ==
    /\ files' = Written(files, d.fileUri, d.data)
    /\ fAlerts' = IF dialog THEN fAlerts (+) SetToBag({AlertGuardada}) ELSE fAlerts
    /\ downloads' = downloads \ {d}
    /\ UNCHANGED <<activeSection, orphans, produced>>
    /\ UNCHANGED <<dvars, fvars, mvars, wvars, rvars, kvars>>

\* The write rejects (nothing written) or the sharing rejects (the file is
\* there): catch, dialog 'Error'.
DownloadThrows(d, written) ==
    /\ files' = IF written THEN Written(files, d.fileUri, d.data) ELSE files
    /\ fAlerts' = fAlerts (+) SetToBag({AlertNoDescargada})
    /\ downloads' = downloads \ {d}
    /\ UNCHANGED <<activeSection, orphans, produced>>
    /\ UNCHANGED <<dvars, fvars, mvars, wvars, rvars, kvars>>

DownloadCompletes == \E d \in downloads : \E dialog \in BOOLEAN : DownloadResolves(d, dialog)
DownloadFails == \E d \in downloads : \E written \in BOOLEAN : DownloadThrows(d, written)

\* Pressing the button of a dialog of the Feed screen.
AcknowledgeFeedAlert(a) ==
    /\ BagIn(a, fAlerts)
    /\ fAlerts' = fAlerts (-) SetToBag({a})
    /\ UNCHANGED files
    /\ UNCHANGED <<activeSection, orphans, downloads, produced>>
    /\ UNCHANGED <<dvars, fvars, mvars, wvars, rvars, kvars>>

PressFeedAlertButton == \E a \in BagToSet(fAlerts) : AcknowledgeFeedAlert(a)

InitApp == DiaryInit /\ FeedIdle /\ MusicIdle /\ OthersIdle

AppNext ==
    \/ PressNavigation
    \/ DiaryTypeAuthor
    \/ DiaryTypeMessage
    \/ DiaryPickImage
    \/ DiaryPressSubmit
    \/ DiaryConversionDone
    \/ DiaryConversionFails
    \/ StoreExecutesInsert
    \/ DiaryInsertSucceeds
    \/ DiaryInsertReturnsError
    \/ DiaryInsertThrows
    \/ PressAlertButton
    \/ UnmountedConversionDone
    \/ UnmountedConversionFails
    \/ UnmountedStoreInserts
    \/ UnmountedInsertResolves
    \/ FeedMount
    \/ FeedOnRefresh
    \/ StoreServes
    \/ ResponseSucceeds
    \/ ResponseReturnsError
    \/ ResponseThrows
    \/ PressDownloadControl
    \/ DownloadCompletes
    \/ DownloadFails
    \/ PressFeedAlertButton

SpecApp == InitApp /\ [][AppNext]_vars

(***************************************************************************)
(* The navigation shell: the Index page, its menu and the bottom tab bar.  *)
(***************************************************************************)
Views == {"HomeView", "MusicSection", "DiarySection", "FeedSection"}

\* renderSection(): the switch on activeSection, the home view by default.
renderSection ==
    CASE activeSection = "music" -> "MusicSection"
      [] activeSection = "diary" -> "DiarySection"
      [] activeSection = "feed" -> "FeedSection"
      [] OTHER -> "HomeView"

\* {activeSection !== 'home' && <BottomNavigation ... />}
TabBarRendered == activeSection # "home"

\* The tabs of BottomNavigation and the menu buttons of the home view.
TabsOfBar == {"home", "music", "diary", "feed"}
MenuButtonsNoFeed == {"music", "diary"}
MenuButtons == {"music", "diary", "feed"}

\* onPress of a tab: onSectionChange(s), which is setActiveSection(s).  The
\* tab of the section shown sets the state to the value it has: no render.
TabPress(s) ==
    /\ TabBarRendered
    /\ s \in TabsOfBar
    /\ IF s = activeSection
       THEN NoAlertShown /\ UNCHANGED vars
       ELSE Navigate(s)

\* onPress of a menu button of the home view: setActiveSection(s).
MenuButtonPress(s) ==
    /\ renderSection = "HomeView"
    /\ s \in MenuButtons
    /\ Navigate(s)

PressTabOfBar == \E s \in Sections : TabPress(s)
PressMenuButton == \E s \in Sections : MenuButtonPress(s)

ShellNext ==
    \/ PressTabOfBar
    \/ PressMenuButton
    \/ DiaryTypeAuthor
    \/ DiaryTypeMessage
    \/ DiaryPickImage
    \/ DiaryPressSubmit
    \/ DiaryConversionDone
    \/ DiaryConversionFails
    \/ StoreExecutesInsert
    \/ DiaryInsertSucceeds
    \/ DiaryInsertReturnsError
    \/ DiaryInsertThrows
    \/ PressAlertButton
    \/ UnmountedConversionDone
    \/ UnmountedConversionFails
    \/ UnmountedStoreInserts
    \/ UnmountedInsertResolves
    \/ FeedMount
    \/ FeedOnRefresh
    \/ StoreServes
    \/ ResponseSucceeds
    \/ ResponseReturnsError
    \/ ResponseThrows
    \/ PressDownloadControl
    \/ DownloadCompletes
    \/ DownloadFails
    \/ PressFeedAlertButton

SpecShell == InitApp /\ [][ShellNext]_vars

(***************************************************************************)
(* A Carousel driven through its api by the parent, which also chooses the *)
(* CarouselItem children.                                                  *)
(***************************************************************************)
canScrollPrev == currentIndex > 0
canScrollNext == currentIndex < itemsCount - 1

\* The api's selectedIndex
selectedIndex == currentIndex

\* The parent renders the Carousel with count CarouselItem children; the
\* effect on [children] counts them: setItemsCount(count).
CountChildren(count) ==
    /\ itemsCount' = count
    /\ UNCHANGED currentIndex
    /\ UNCHANGED notCarousel

scrollPrev ==
    /\ currentIndex' = IF canScrollPrev THEN currentIndex - 1 ELSE currentIndex
    /\ UNCHANGED itemsCount
    /\ UNCHANGED notCarousel

scrollNext ==
    /\ currentIndex' = IF canScrollNext THEN currentIndex + 1 ELSE currentIndex
    /\ UNCHANGED itemsCount
    /\ UNCHANGED notCarousel

scrollTo(index) ==
    /\ currentIndex' = IF index >= 0 /\ index < itemsCount THEN index
                       ELSE currentIndex
    /\ UNCHANGED itemsCount
    /\ UNCHANGED notCarousel

ChildrenChange == \E count \in 0..MaxItems : CountChildren(count)
CallScrollTo == \E index \in -1..(MaxItems + 1) : scrollTo(index)

InitCarousel == DiaryInit /\ FeedIdle /\ MusicIdle /\ OthersIdle

CarouselNext ==
    \/ ChildrenChange
    \/ scrollPrev
    \/ scrollNext
    \/ CallScrollTo

SpecCarousel == InitCarousel /\ [][CarouselNext]_vars

(***************************************************************************)
(* An uncontrolled InputOTP: texts arrive from the hidden TextInput, and   *)
(* children call the context's setValue with a text or with an updater.    *)
(***************************************************************************)
Digits == {"0", "1", "2", "3", "4", "5", "6", "7", "8", "9"}
OtpChars == {"0", "1", "7", "a"}
OtpTexts == UNION {[1..n -> OtpChars] : n \in 0..MaxOtpText}

\* Faulty variant: the text is not cut at maxLength.
SanitizeNoSlice(newValue) == SelectSeq(newValue, LAMBDA c : c \in Digits)

\* newValue.replace(/[^0-9]/g, "").slice(0, maxLength)
Sanitize(newValue) ==
    LET digits == SelectSeq(newValue, LAMBDA c : c \in Digits)
    IN  SubSeq(digits, 1, IF Len(digits) < maxLength THEN Len(digits) ELSE maxLength)

\* InputOTP.handleChange with newValue the text given, or the result of the
\* updater applied to the current value.
OTPHandleChange(newValue) ==
    LET sanitizedValue == Sanitize(newValue)
    IN  /\ internalValue' = sanitizedValue
        /\ otpChanges' = {sanitizedValue}
        /\ activeInput' = IF Len(sanitizedValue) < maxLength
                          THEN Len(sanitizedValue) ELSE maxLength - 1
        /\ UNCHANGED maxLength
        /\ UNCHANGED notOTP

\* onChangeText={handleChange}
OTPChangeText == \E text \in OtpTexts : OTPHandleChange(text)

\* setValue(prev => prev + c) and setValue(prev => prev.slice(0, -1))
OTPUpdaterAppends == \E c \in OtpChars : OTPHandleChange(Append(internalValue, c))
OTPUpdaterDeletes ==
    OTPHandleChange(SubSeq(internalValue, 1, Len(internalValue) - 1))

InitOTP ==
    /\ DiaryInit /\ FeedIdle /\ MusicIdle /\ DownloadIdle /\ WidgetIdle
    /\ RenderIdle /\ PageIdle /\ CarouselIdle /\ SelectIdle /\ ToastIdle
    /\ maxLength \in 1..MaxOtpLength
    /\ internalValue = <<>>
    /\ activeInput = 0
    /\ otpChanges = {}

OTPNext ==
    \/ OTPChangeText
    \/ OTPUpdaterAppends
    \/ OTPUpdaterDeletes

SpecOTP == InitOTP /\ [][OTPNext]_vars

(***************************************************************************)
(* An uncontrolled Select (neither the open nor the value prop is given).  *)
(***************************************************************************)
OnValueChange(v) == [callback |-> "onValueChange", arg |-> Str(v)]
OnOpenChange(b) == [callback |-> "onOpenChange", arg |-> Bool(b)]

\* Faulty variant: the select is left open after a selection.
SelectHandleValueChangeStaysOpen(newValue) ==
    /\ valueState' = Str(newValue)
    /\ selectCalls' = Append(selectCalls, OnValueChange(newValue))
    /\ UNCHANGED openState

\* Select.handleValueChange, with handleOpenChange(false) at its end.
SelectHandleValueChange(newValue) ==
    /\ valueState' = Str(newValue)
    /\ openState' = FALSE
    /\ selectCalls' = selectCalls \o <<OnValueChange(newValue), OnOpenChange(FALSE)>>

\* Select.handleOpenChange
SelectHandleOpenChange(newOpen) ==
    /\ openState' = newOpen
    /\ selectCalls' = Append(selectCalls, OnOpenChange(newOpen))
    /\ UNCHANGED valueState

\* SelectItem.handlePress
SelectItemPress(value, disabled) ==
    /\ Len(selectCalls) < MaxSelectCalls
    /\ IF disabled
       THEN UNCHANGED <<openState, valueState, selectCalls>>
       ELSE SelectHandleValueChange(value)
    /\ UNCHANGED selectDisabled
    /\ UNCHANGED notSelect

\* SelectTrigger.handlePress
SelectTriggerPress ==
    /\ Len(selectCalls) < MaxSelectCalls
    /\ IF selectDisabled
       THEN UNCHANGED <<openState, valueState, selectCalls>>
       ELSE SelectHandleOpenChange(~openState)
    /\ UNCHANGED selectDisabled
    /\ UNCHANGED notSelect

\* The backdrop, the close button and the back request of SelectContent.
SelectContentClose ==
    /\ Len(selectCalls) < MaxSelectCalls
    /\ openState
    /\ SelectHandleOpenChange(FALSE)
    /\ UNCHANGED selectDisabled
    /\ UNCHANGED notSelect

\* The parent re-renders the Select with the disabled prop negated.
SelectParentSetsDisabled ==
    /\ selectDisabled' = ~selectDisabled
    /\ UNCHANGED <<openState, valueState, selectCalls>>
    /\ UNCHANGED notSelect

PressSelectItem ==
    \E value \in Items, disabled \in BOOLEAN : SelectItemPress(value, disabled)

InitSelect ==
    /\ DiaryInit /\ FeedIdle /\ MusicIdle /\ DownloadIdle /\ WidgetIdle
    /\ RenderIdle /\ PageIdle /\ CarouselIdle /\ OTPIdle /\ ToastIdle
    /\ selectDisabled \in BOOLEAN
    /\ openState \in BOOLEAN
    /\ valueState \in {Undefined} \cup {Str(i) : i \in Items}
    /\ selectCalls = <<>>

SelectNext ==
    \/ PressSelectItem
    \/ SelectTriggerPress
    \/ SelectContentClose
    \/ SelectParentSetsDisabled

SpecSelect == InitSelect /\ [][SelectNext]_vars

(***************************************************************************)
(* A ToastProvider with a mounted Toaster: one ToastView per toast.        *)
(***************************************************************************)
\* The duration a caller gives in milliseconds (0 when it gives none: both
\* are falsy in `toast.duration || 5000`).
ToastDurations == {0, 3000}
DefaultDuration == 5000

\* toast.duration || 5000
TimerDelay(duration) == IF duration = 0 THEN DefaultDuration ELSE duration

ToastIds(list) == {list[k].id : k \in 1..Len(list)}

\* Faulty variant: the oldest toast is removed, whatever the id.
RemoveOldest(list, id) == IF list = <<>> THEN list ELSE Tail(list)

\* removeToast: prev.filter((toast) => toast.id !== id)
RemoveToast(list, id) == SelectSeq(list, LAMBDA toast : toast.id # id)

\* addToast appends the toast under a new id (the ids that Math.random
\* yields are taken to differ from one another); the Toaster renders its
\* ToastView, whose mount effect arms the auto-dismiss timer.
AddToast(duration) ==
    /\ added < MaxToasts
    /\ added' = added + 1
    /\ toasts' = Append(toasts, [id |-> added + 1, duration |-> duration])
    /\ timers' = timers \cup {[id |-> added + 1, delay |-> TimerDelay(duration)]}
    /\ UNCHANGED fadeOuts
    /\ UNCHANGED notToast

\* ToastView.handleDismiss: the fade-out starts; its end calls onDismiss.
HandleDismiss(id, by) == fadeOuts' = fadeOuts \cup {[id |-> id, by |-> by]}

\* The timer of a mounted ToastView runs out.
TimerFires(id) ==
    /\ \E t \in timers : t.id = id
    /\ timers' = {t \in timers : t.id # id}
    /\ HandleDismiss(id, "timer")
    /\ UNCHANGED <<toasts, added>>
    /\ UNCHANGED notToast

\* The user presses the dismiss button of a toast that is displayed.
PressDismiss(id) ==
    /\ id \in ToastIds(toasts)
    /\ HandleDismiss(id, "press")
    /\ UNCHANGED <<toasts, timers, added>>
    /\ UNCHANGED notToast

\* A fade-out ends (or is cut short by a second one): onDismiss, which is
\* removeToast(toast.id); the ToastView of a toast removed is unmounted and
\* its cleanup clears the timer.
FadeOutEnds(f) ==
    /\ f \in fadeOuts
    /\ fadeOuts' = fadeOuts \ {f}
    /\ toasts' = RemoveToast(toasts, f.id)
    /\ timers' = {t \in timers : t.id \in ToastIds(toasts')}
    /\ UNCHANGED added
    /\ UNCHANGED notToast

FadeOutEndsOf(id) == \E f \in fadeOuts : f.id = id /\ FadeOutEnds(f)

CallAddToast == \E duration \in ToastDurations : AddToast(duration)
ToastTimerFires == \E id \in 1..MaxToasts : TimerFires(id)
PressToastDismiss == \E id \in 1..MaxToasts : PressDismiss(id)
ToastFadeOutEnds == \E id \in 1..MaxToasts : FadeOutEndsOf(id)

InitToast == DiaryInit /\ FeedIdle /\ MusicIdle /\ OthersIdle

ToastNext ==
    \/ CallAddToast
    \/ ToastTimerFires
    \/ PressToastDismiss
    \/ ToastFadeOutEnds

\* The timer of each toast runs out and each animation ends; addToast and
\* the presses of the user are under no obligation.
ToastFairness ==
    \A id \in 1..MaxToasts :
        WF_vars(TimerFires(id)) /\ WF_vars(FadeOutEndsOf(id))

SpecToast == InitToast /\ [][ToastNext]_vars /\ ToastFairness

(***************************************************************************)
(* Properties of the Diary screen.                                         *)
(***************************************************************************)
\* Empty or whitespace-only, stated without trim().
IsBlank(s) == \A k \in 1..Len(s) : s[k] \in WhiteSpace

Converting == Cardinality({k \in 1..Len(submits) : submits[k].phase = "converting"})

\* C1: an invocation of handleSubmit while the author or the message is empty
\* or whitespace-only starts no image conversion and no insert request, shows
\* the "Campos requeridos" alert, does not touch isSubmitting (false whenever
\* no submission is under way) and leaves the form fields as they are.
C1_RejectedSubmit ==
    [][(CallHandleSubmit /\ (IsBlank(author) \/ IsBlank(message)))
         => /\ submits' = submits
            /\ inserts' = inserts
            /\ presses' = presses
            /\ dAlerts' = dAlerts (+) SetToBag({AlertCampos})
            /\ isSubmitting' = isSubmitting
            /\ (submits = <<>> => ~isSubmitting')
            /\ message' = message /\ author' = author /\ image' = image]_vars

C1_Witness ==
    /\ BagIn(AlertCampos, dAlerts)
    /\ IsBlank(author) /\ author # <<>> /\ ~IsBlank(message)
    /\ submits = <<>> /\ inserts = 0 /\ ~isSubmitting

\* C6: at most one submission of the screen is outstanding; isSubmitting is
\* true exactly while one is; every accepted press has issued exactly one
\* insert request, or is still converting its photo and has issued none; the
\* submit control is disabled exactly when isSubmitting is true or the author
\* or the message is blank.
C6_SingleAttempt ==
    /\ Len(submits) <= 1
    /\ isSubmitting <=> (submits # <<>>)
    /\ inserts + Converting = presses
    /\ SubmitDisabled <=> (isSubmitting \/ IsBlank(author) \/ IsBlank(message))

C6_Witness ==
    /\ presses = 2 /\ inserts = 2
    /\ Len(submits) = 1 /\ submits[1].phase = "inserting"
    /\ ~IsBlank(author) /\ ~IsBlank(message) /\ SubmitDisabled

FailureStep(i) == InsertReturnsError(i) \/ InsertThrows(i)

\* C7 as stated: when the insert fails, the author, the message and the photo
\* are those of the moment submit was pressed.
C7_FormAsAtPress ==
    [][\A i \in 1..Len(submits) : FailureStep(i) =>
          /\ message' = submits[i].h.message
          /\ author' = submits[i].h.author
          /\ image' = submits[i].h.image]_vars

\* C7, amended: when the insert returns an error or throws, an error alert is
\* shown, the failure path writes none of author, message and photo (they stay
\* as they were just before the response), isSubmitting becomes false, nothing
\* is outstanding afterwards and no insert request is issued by that step.
C7_FailureLeavesForm ==
    [][\A i \in 1..Len(submits) : FailureStep(i) =>
          /\ \/ dAlerts' = dAlerts (+) SetToBag({AlertNoEnviada})
             \/ dAlerts' = dAlerts (+) SetToBag({AlertInesperado})
          /\ message' = message /\ author' = author /\ image' = image
          /\ ~isSubmitting'
          /\ submits' = <<>>
          /\ inserts' = inserts /\ presses' = presses]_vars

C7_Witness ==
    /\ BagIn(AlertNoEnviada, dAlerts)
    /\ ~isSubmitting /\ submits = <<>>
    /\ ~IsBlank(author) /\ ~IsBlank(message) /\ image # NULL
    /\ inserts = 1

\* C8: once the confirmation alert of a successful submission is acknowledged,
\* author and message are empty, no photo remains selected and isSubmitting is
\* false.
C8_FormCleared ==
    [][AcknowledgeAlert(AlertEnviada) =>
          /\ message' = <<>> /\ author' = <<>>
          /\ image' = NULL
          /\ ~isSubmitting']_vars

\* C9: a failed conversion does not abort the submission: the step issues the
\* one insert request, with the trimmed author and message and image_url
\* null; a successful conversion issues it with image_url equal to
\* "data:image/jpeg;base64," followed by the base64 text of the photo.
C9_ConversionOutcome ==
    [][\A i \in 1..Len(submits) :
          /\ ConversionFails(i) =>
                /\ Len(submits') = Len(submits)
                /\ submits'[i].phase = "inserting"
                /\ submits'[i].row =
                      [message |-> Trim(submits[i].h.message),
                       author |-> Trim(submits[i].h.author),
                       image_url |-> NULL]
                /\ inserts' = inserts + 1
                /\ isSubmitting'
          /\ ConversionDone(i) =>
                /\ submits'[i].phase = "inserting"
                /\ submits'[i].row =
                      [message |-> Trim(submits[i].h.message),
                       author |-> Trim(submits[i].h.author),
                       image_url |-> <<"data:image/jpeg;base64", ",">>
                                        \o FileContent(submits[i].h.image)]
                /\ inserts' = inserts + 1]_vars

C9_Witness ==
    /\ Len(submits) = 1 /\ submits[1].phase = "inserting"
    /\ submits[1].h.image # NULL /\ submits[1].row.image_url = NULL
    /\ BagIn(AlertImagen, dAlerts)
    /\ inserts = 1 /\ presses = 1

(***************************************************************************)
(* Properties of the Feed screen.                                          *)
(***************************************************************************)
Position(rows, n) == CHOOSE k \in 1..Len(rows) : rows[k].id = n

\* C2: a fetch issued after an insert completed returns a list that holds the
\* new row, placed before every row inserted earlier (rows get their ids in
\* insertion order).
C2_NewestFirst ==
    \A r \in requests : r.state = "served" =>
        \A n \in 1..r.known :
            /\ n \in Ids(r.data)
            /\ \A m \in 1..(n - 1) : Position(r.data, n) < Position(r.data, m)

\* C4: no request-generation guard: every response that arrives without error
\* replaces the letters list by its own data, whatever has been displayed
\* since the request was issued.
C4_ResponseAlwaysApplied ==
    [][\A r \in requests : FetchSucceeds(r) => letters' = r.data]_vars

\* A row that the list displayed is no longer in it although the table still
\* holds it and every request has resolved.
C4_Witness ==
    /\ requests = {}
    /\ \E n \in everShown : n \in Ids(love_letters) /\ n \notin Ids(letters)

\* C5: whenever a fetch request is in flight, the spinner or the
\* pull-to-refresh indicator is displayed.
C5_IndicatorWhileInFlight ==
    requests # {} => (SpinnerShown \/ RefreshControlShown)

\* C10: over a table that nothing writes, every successful fetch sets the list
\* to the table's rows newest-first, and once the list is that list no
\* refresh, failure or overlapping response changes it.
C10_RefreshIdempotent ==
    [][/\ \A r \in requests :
             FetchSucceeds(r) => letters' = OrderByCreatedAtDesc(love_letters)
       /\ (mounted /\ letters = OrderByCreatedAtDesc(love_letters))
             => letters' = letters]_vars

C10_Witness ==
    /\ requests = {}
    /\ issued = 3
    /\ Len(letters) = 2
    /\ letters = OrderByCreatedAtDesc(love_letters)
    /\ letters # love_letters

FetchFailureStep(r) == FetchReturnsError(r) \/ FetchThrows(r)

\* C11 as stated: when a fetch returns an error or throws, the letters list
\* is the list the screen held before that request was issued.
C11_ListAsBeforeRequest ==
    [][\A r \in requests : FetchFailureStep(r) => letters' = r.before]_vars

\* C11, amended: when a fetch returns an error or throws, the failure path
\* does not write the letters list (it stays as it was just before the
\* response), loading and refreshing are false afterwards, no alert is shown
\* and no request is issued by that step.
C11_FailureLeavesList ==
    [][\A r \in requests : FetchFailureStep(r) =>
          /\ letters' = letters
          /\ ~loading' /\ ~refreshing'
          /\ fAlerts' = fAlerts
          /\ issued' = issued
          /\ requests' = requests \ {r}]_vars

\* A refresh failed after the list had been filled: the stale rows stay.
C11_Witness ==
    /\ outcome \in {"error", "thrown"}
    /\ requests = {}
    /\ letters # <<>>
    /\ ~loading /\ ~refreshing
    /\ fAlerts = EmptyBag

\* C12: as long as a fetch request of the Feed screen (resp. a select request
\* of the Music screen) has not resolved, loading (resp. the Music screen's
\* loading) is true, whatever else was pressed or has resolved since it was
\* issued; a request that never resolves is outstanding in every later state.
C12_LoadingWhileOutstanding ==
    /\ requests # {} => loading
    /\ (\E r \in mRequests : r.kind = "select") => mLoading

\* C23: the empty-state text "No hay cartas aun." is displayed only after
\* a fetch of the Feed screen has resolved (with data, an error or an
\* exception), however the mount fetch and the refresh gestures interleave.
C23_EmptyTextAfterResolve ==
    EmptyTextShown => outcome # "none"

(***************************************************************************)
(* Properties of the Music screen.                                         *)
(***************************************************************************)
\* The URL holds "open.spotify.com", stated without includes().
HasMarker(u) ==
    \E k \in 1..(Len(u) - 1) : u[k] = "open." /\ u[k + 1] = "spotify.com"

\* C3: every insert request of the Music screen carries a non-empty name and
\* a URL holding "open.spotify.com"; a press of "Agregar" while the name or
\* the URL is empty or the URL lacks the marker issues no request, shows an
\* alert and leaves loading, the modal and the form as they are.
C3_OnlySpotifyUrlsInserted ==
    [][/\ \A r \in mRequests' :
             r.kind = "insert" => (r.row.name # <<>> /\ HasMarker(r.row.spotify_url))
       /\ (HandleAddPlaylist /\ (\/ newPlaylist.name = <<>>
                                 \/ ~HasMarker(newPlaylist.spotify_url)))
             => /\ mRequests' = mRequests
                /\ mIssued' = mIssued
                /\ \/ mAlerts' = mAlerts (+) SetToBag({AlertObligatorios})
                   \/ mAlerts' = mAlerts (+) SetToBag({AlertUrlInvalida})
                /\ mLoading' = mLoading
                /\ modalVisible' = modalVisible
                /\ newPlaylist' = newPlaylist]_vars

C3_Witness ==
    /\ BagIn(AlertUrlInvalida, mAlerts)
    /\ newPlaylist.name # <<>>
    /\ newPlaylist.spotify_url # <<>> /\ ~HasMarker(newPlaylist.spotify_url)
    /\ modalVisible
    /\ \A r \in mRequests : r.kind # "insert"
    /\ music_playlists = <<>>

Selects(rs) == {r \in rs : r.kind = "select"}

\* C13: when the insert succeeds, the modal is closed, the form is reset to
\* empty fields and exactly one select request is started (and no alert
\* shown); when the insert fails, the alert is shown, the modal and the form
\* stay as they are and no request is started.
C13_AddOutcome ==
    [][\A r \in mRequests :
          /\ AddSucceeds(r) =>
                /\ ~modalVisible'
                /\ newPlaylist' =
                      [name |-> <<>>, description |-> <<>>, spotify_url |-> <<>>]
                /\ Cardinality(Selects(mRequests')) =
                      Cardinality(Selects(mRequests)) + 1
                /\ mIssued' = mIssued + 1
                /\ mAlerts' = mAlerts
          /\ AddFails(r) =>
                /\ mAlerts' = mAlerts (+) SetToBag({AlertNoAgregada})
                /\ modalVisible' = modalVisible
                /\ newPlaylist' = newPlaylist
                /\ Selects(mRequests') = Selects(mRequests)
                /\ mIssued' = mIssued]_vars

C13_Witness ==
    /\ BagIn(AlertNoAgregada, mAlerts)
    /\ modalVisible
    /\ newPlaylist.name # <<>> /\ HasMarker(newPlaylist.spotify_url)
    /\ Selects(mRequests) = {}
    /\ ~mLoading

\* C22: whenever a select request that was not started by pull-to-refresh
\* (the mount fetch, or the re-fetch started after a successful add) is in
\* flight, loading is true.
C22_LoadingDuringFetch ==
    \A r \in Selects(mRequests) : r.by # "refresh" => mLoading

\* No loading indicator of the Feed, resp. of the Music screen, is displayed.
FeedQuiet == ~loading /\ ~refreshing
MusicQuiet == ~mLoading /\ ~mRefreshing

\* C24: once the mount fetch of the Feed or of the Music screen was issued,
\* loading and refreshing are both false whenever no request of that screen
\* (fetch or insert) is outstanding; and when every issued request resolves,
\* a mounted screen always comes to a state with no request outstanding and
\* no loading indicator displayed.
C24_Quiescence ==
    /\ [](mounted /\ requests = {} => FeedQuiet)
    /\ [](mMounted /\ mRequests = {} => MusicQuiet)
    /\ mounted ~> (requests = {} /\ FeedQuiet)
    /\ mMounted ~> (mRequests = {} /\ MusicQuiet)

\* A playlist was added and re-fetched after the mount fetch, and nothing is
\* outstanding any more.
C24_Witness ==
    /\ mMounted /\ mRequests = {}
    /\ mIssued = 3
    /\ Len(music_playlists) = 1 /\ Len(playlists) = 1
    /\ MusicQuiet

(***************************************************************************)
(* Properties of the widgets.                                              *)
(***************************************************************************)
ItemSet(a) == {a[k] : k \in 1..Len(a)}

\* new is the value that activating control g proposes when old is displayed:
\* the negation for a press or a trigger, false for a close control, the tab
\* pressed, the item toggled in the selection.
IsProposal(old, g, new) ==
    IF wKind \in PressWidgets \cup TriggerWidgets
    THEN new = Bool(IF g = "close" THEN FALSE ELSE ~old.on)
    ELSE IF wKind = "Tabs"
    THEN new = Str(g)
    ELSE IF wType = "single"
    THEN IF wKind = "ToggleGroup"
         THEN new = Arr(IF g \in ItemSet(old.items) THEN <<>> ELSE <<g>>)
         ELSE new = Str(IF old = Str(g) THEN "" ELSE g)
    ELSE /\ new.tag = "array"
         /\ Cardinality(ItemSet(new.items)) = Len(new.items)
         /\ LET was == IF old.tag = "array" THEN ItemSet(old.items) ELSE {}
            IN  ItemSet(new.items) = (was \ {g}) \cup ({g} \ was)

UserActivates == wActs' = wActs + 1

\* The control activated is not disabled (the accordion and the close
\* controls of dialog and drawer cannot be).
ActivatedEnabled == ~wDisabled \/ wKind = "Accordion" \/ wGesture' = "close"

\* What an activation does in each mode.
ActivationEffect ==
    IF wProp # Undefined
    THEN /\ Len(wCalls') = Len(wCalls) + 1
         /\ IsProposal(wProp, wGesture', wCalls'[Len(wCalls')])
         /\ wState' = wState
         /\ Resolved' = wProp
    ELSE /\ IsProposal(wState, wGesture', wState')
         /\ Resolved' = wState'

\* C14 as stated: every user activation of a controlled widget calls the
\* change callback once with the proposed value, leaves the widget's own state
\* alone and leaves the prop displayed; every user activation of an
\* uncontrolled widget writes the widget's own state, which is displayed.
C14_EveryActivation ==
    [][UserActivates => ActivationEffect]_vars

\* C14, amended: the same for every activation of a control that is not
\* disabled; only the parent changes the prop, and a supplied prop is what is
\* displayed.
C14_EnabledActivation ==
    [][/\ (UserActivates /\ ActivatedEnabled) => ActivationEffect
       /\ UserActivates => wProp' = wProp
       /\ wProp' # Undefined => Resolved' = wProp']_vars

\* A controlled accordion whose parent did not follow the second callback.
C14_Witness ==
    /\ wKind = "Accordion" /\ wType = "multiple"
    /\ wProp # Undefined
    /\ Len(wCalls) = 2 /\ wCalls[2] # wProp
    /\ wState = wDefault
    /\ Resolved = wProp

\* C15: a press on the trigger, the action, the cancel button or the overlay
\* of an AlertDialog calls onOpenChange once and does not write the dialog's
\* own copy; the dialog is displayed exactly when the open prop is true, also
\* after the parent changed the prop.
C15_DisplayedIffProp ==
    [][/\ UserActivates =>
             /\ Len(wCalls') = Len(wCalls) + 1
             /\ wState' = wState
       /\ wState'.on <=> wProp'.on]_vars

\* An uncontrolled two-state widget.
UncontrolledBinary ==
    wKind \in PressWidgets \cup TriggerWidgets /\ wProp = Undefined

\* b negated n times.
Flip(b, n) == IF n % 2 = 0 THEN b ELSE ~b

\* C16: an uncontrolled two-state widget starts in its default (false when
\* none is given); an activation of an enabled control negates the state and
\* reports the new state to the change callback; an activation of a disabled
\* control changes nothing and reports nothing; so the state is the default
\* negated once per enabled activation, and the callback was called once per
\* enabled activation.
C16_BinaryStateMachine ==
    /\ [](UncontrolledBinary =>
             /\ wState = Bool(Flip(wDefault.on, wEnabledActs))
             /\ Len(wCalls) = wEnabledActs)
    /\ [][(UncontrolledBinary /\ UserActivates) =>
             IF ActivatedEnabled
             THEN /\ wState' = Bool(~wState.on)
                  /\ wCalls' = Append(wCalls, wState')
                  /\ wEnabledActs' = wEnabledActs + 1
             ELSE /\ wState' = wState
                  /\ wCalls' = wCalls
                  /\ wEnabledActs' = wEnabledActs]_vars

\* A switch that started checked, was pressed twice while enabled and once
\* while disabled.
C16_Witness ==
    /\ wKind = "Switch" /\ wProp = Undefined
    /\ wDefault = Bool(TRUE)
    /\ wActs = 3 /\ wEnabledActs = 2
    /\ wState = Bool(TRUE)
    /\ wCalls = <<Bool(FALSE), Bool(TRUE)>>

(***************************************************************************)
(* Properties of rendering the compound widgets.                           *)
(***************************************************************************)
\* The context whose Provider a sub-component is meant to be under: the one
\* of its widget; for the trigger and the content of an accordion item, the
\* one of the item.
ProviderContext(c) ==
    CASE c = "AccordionItem" -> "AccordionContext"
      [] c \in {"AccordionTrigger", "AccordionContent"} -> "AccordionItemContext"
      [] c \in {"TabsList", "TabsTrigger", "TabsContent"} -> "TabsContext"
      [] c \in {"SelectTrigger", "SelectValue", "SelectContent", "SelectItem"} ->
            "SelectContext"
      [] c \in {"DrawerTrigger", "DrawerPortal", "DrawerOverlay", "DrawerClose",
                "DrawerContent", "DrawerHeader", "DrawerFooter", "DrawerTitle",
                "DrawerDescription"} -> "DrawerContext"
      [] c \in {"DialogTrigger", "DialogPortal", "DialogOverlay",
                "DialogContent", "DialogClose", "DialogHeader", "DialogFooter",
                "DialogTitle", "DialogDescription"} -> "DialogContext"
      [] c \in {"CollapsibleTrigger", "CollapsibleContent"} ->
            "CollapsibleContext"
      [] c \in {"CarouselContent", "CarouselItem", "CarouselPrevious",
                "CarouselNext"} -> "CarouselContext"
      [] c = "ToggleGroupItem" -> "ToggleGroupContext"
      [] c \in {"InputOTPGroup", "InputOTPSlot", "InputOTPSeparator"} ->
            "OTPContext"
      [] c = "Toaster" -> "ToastContext"
      [] c \in {"AlertDialogTrigger", "AlertDialogContent", "AlertDialogAction",
                "AlertDialogCancel"} -> "AlertDialogContext"
      [] c \in {"AvatarImage", "AvatarFallback"} -> "AvatarContext"

InsideProvider(c) == ProviderContext(c) \in rProvided

\* The parts of a dialog and of a drawer that are plain styled views.
PlainParts ==
    {"DrawerHeader", "DrawerFooter", "DrawerTitle", "DrawerDescription",
     "DialogHeader", "DialogFooter", "DialogTitle", "DialogDescription"}

\* The sub-components of the widgets that throw on a missing provider: the
\* ones named for Accordion, ToggleGroup and InputOTP, every sub-component of
\* the other widgets.
SubComponents ==
    {"AccordionItem", "AccordionTrigger", "AccordionContent",
     "TabsList", "TabsTrigger", "TabsContent",
     "SelectTrigger", "SelectValue", "SelectContent", "SelectItem",
     "DrawerTrigger", "DrawerPortal", "DrawerOverlay", "DrawerClose",
     "DrawerContent",
     "DialogTrigger", "DialogPortal", "DialogOverlay", "DialogContent",
     "DialogClose",
     "CollapsibleTrigger", "CollapsibleContent",
     "CarouselContent", "CarouselItem", "CarouselPrevious", "CarouselNext",
     "ToggleGroupItem", "InputOTPSlot"} \cup PlainParts

\* C17 as stated: every sub-component of the widgets named raises an error
\* during a render outside its provider and none during a render inside it.
C17_AnySubComponent ==
    [][\A c \in SubComponents :
          RenderComponent(c) => (rError' # NoError <=> ~InsideProvider(c))]_vars

\* C17, amended: every sub-component of the widgets named that reads the
\* context of its widget (all of them but the header, footer, title and
\* description of Dialog and Drawer) raises an error during a render outside
\* its provider and none during a render inside it.
C17_ContextReaders ==
    [][\A c \in SubComponents \ PlainParts :
          RenderComponent(c) => (rError' # NoError <=> ~InsideProvider(c))]_vars

\* An accordion trigger rendered directly under an Accordion, outside any
\* AccordionItem, has thrown.
C17_Witness ==
    /\ rLast = "AccordionTrigger"
    /\ rProvided = {"AccordionContext"}
    /\ rError = "AccordionTrigger must be used within an AccordionItem"

\* The components that read a context created with a default object.
DefaultReaders ==
    {"Toaster", "AlertDialogTrigger", "AlertDialogContent", "AlertDialogAction",
     "AlertDialogCancel", "AvatarImage", "AvatarFallback"}

\* C18: a component that calls useToast of the toast kit outside a
\* ToastProvider, and AlertDialogTrigger, AlertDialogContent,
\* AlertDialogAction, AlertDialogCancel outside an AlertDialog, and
\* AvatarImage, AvatarFallback outside an Avatar, raise an error during that
\* render; useToast raises 'useToast must be used within a ToastProvider'.
C18_DefaultReadersThrow ==
    [][\A c \in DefaultReaders :
          (RenderComponent(c) /\ ~InsideProvider(c)) =>
              /\ rError' # NoError
              /\ c = "Toaster" =>
                    rError' = "useToast must be used within a ToastProvider"]_vars


(***************************************************************************)
(* Properties of the application as a whole.                               *)
(***************************************************************************)
Base64Tokens == {"/9j/", "4AAQ", "iVBO", "=="}

\* The base64 payloads of at most MaxPayload tokens.
Payloads == UNION {[1..n -> Base64Tokens] : n \in 1..MaxPayload}

\* C19: the payload the Diary conversion returns (the data-URI prefix
\* stripped), stored as 'data:image/jpeg;base64,' + payload and split at the
\* first comma by the download action, is the payload again, for the photos
\* of the gallery and for every payload; every photo stored is the prefix
\* followed by the payload the Diary produced for that letter, and every file
\* the Feed has written holds exactly that payload.  (The first part does not
\* depend on the state; it is evaluated in the states before any submission.)
C19_PhotoRoundTrip ==
    /\ presses = 0 =>
          /\ \A u \in Photos :
                /\ imageToBase64(u) = FileContent(u)
                /\ DownloadPayload(ImageUrlOf(imageToBase64(u))) = imageToBase64(u)
          /\ \A p \in Payloads :
                DownloadPayload(ImageUrlOf(
                    SplitSecond(<<"data:image/jpeg;base64", ",">> \o p))) = p
    /\ \A k \in 1..Len(love_letters) :
          love_letters[k].image_url # NULL =>
              /\ love_letters[k].id \in DOMAIN produced
              /\ love_letters[k].image_url =
                    <<"data:image/jpeg;base64", ",">> \o produced[love_letters[k].id]
    /\ \A f \in DOMAIN files :
          \E id \in DOMAIN produced :
              f = FileName(id) /\ files[f] = produced[id]

\* The photo of the first letter has been downloaded from the Feed.
C19_Witness ==
    /\ 1 \in DOMAIN produced
    /\ produced[1] = <<"/9j/", "4AAQ">>
    /\ FileName(1) \in DOMAIN files
    /\ files[FileName(1)] = produced[1]

\* C20: whatever the application does (Diary submits, mounted or not, Feed
\* fetches and refreshes, image downloads, navigation), a step leaves
\* love_letters as it is or appends one new row to it: no row is updated or
\* deleted, and the set of stored letters only grows.
C20_OnlyInserts ==
    [][\/ love_letters' = love_letters
       \/ /\ Len(love_letters') = Len(love_letters) + 1
          /\ SubSeq(love_letters', 1, Len(love_letters)) = love_letters
          /\ love_letters'[Len(love_letters')].id \notin Ids(love_letters)]_vars

\* A letter was stored, fetched by the Feed on mount and on refresh, its
\* photo downloaded, and the user went back to the home section.
C20_Witness ==
    /\ Len(love_letters) = 1
    /\ issued = 2
    /\ files # <<>>
    /\ activeSection = "home"

(***************************************************************************)
(* Properties of the navigation shell.                                     *)
(***************************************************************************)
\* C21: the active section starts as 'home' and always is one of home,
\* music, diary, feed, with exactly one of the four views mounted; the tab
\* bar is rendered exactly when the active section is not 'home'; from a
\* section screen each of the four destinations is one tab press away, from
\* home each of the three sections is one menu-button press away, and the
\* press leads to the destination pressed.
C21_NavigationShell ==
    /\ activeSection = "home"
    /\ [](/\ activeSection \in Sections
          /\ Cardinality({v \in Views : renderSection = v}) = 1
          /\ renderSection = "HomeView" <=> activeSection = "home"
          /\ TabBarRendered <=> activeSection # "home"
          /\ mounted => renderSection = "FeedSection"
          /\ submits # <<>> => renderSection = "DiarySection")
    /\ [](NoAlertShown =>
            /\ \A s \in Sections :
                  ENABLED TabPress(s) <=> activeSection # "home"
            /\ \A s \in Sections :
                  ENABLED MenuButtonPress(s)
                      <=> activeSection = "home" /\ s # "home")
    /\ [][\A s \in Sections :
              TabPress(s) \/ MenuButtonPress(s) => activeSection' = s]_vars

\* The user went to the Diary, sent a letter and came back to the home view,
\* to which only the tab bar leads.
C21_Witness ==
    /\ activeSection = "home"
    /\ presses = 1
    /\ Len(love_letters) = 1

(***************************************************************************)
(* Properties of the ToggleGroup and of the Accordion.                     *)
(***************************************************************************)
\* C25: a press of an enabled item of an enabled group proposes, and in
\* uncontrolled mode stores, a value that in type 'single' has at most one
\* element (empty when the item was selected, exactly the item otherwise),
\* whatever the default was, and that in type 'multiple' differs from the
\* value displayed only in the membership of the item pressed, the other
\* elements and their order kept; a press of a disabled item, or of an item
\* of a disabled group, changes nothing and calls no callback.
C25_ToggleGroupSelection ==
    [][\A v \in Items, itemDisabled \in BOOLEAN :
          ToggleGroupItemHandlePress(v, itemDisabled) =>
              IF wDisabled \/ itemDisabled
              THEN wState' = wState /\ wCalls' = wCalls /\ wProp' = wProp
              ELSE LET old == Resolved.items
                       new == wCalls'[Len(wCalls')].items
                   IN  /\ Len(wCalls') = Len(wCalls) + 1
                       /\ wProp = Undefined => wState' = Arr(new)
                       /\ wType = "single" =>
                             /\ Len(new) <= 1
                             /\ new = IF IncludesItem(old, v) THEN <<>> ELSE <<v>>
                       /\ wType = "multiple" =>
                             /\ IncludesItem(new, v) <=> ~IncludesItem(old, v)
                             /\ FilterOut(new, v) = FilterOut(old, v)]_vars

\* An uncontrolled group of type 'single' whose default held two items: one
\* press of a selected item left the empty value.
C25_Witness ==
    /\ wKind = "ToggleGroup" /\ wType = "single" /\ wProp = Undefined
    /\ wDefault = Arr(<<"a", "b">>)
    /\ wState = Arr(<<>>)
    /\ wGesture = "a" /\ wEnabledActs = 1

\* C26: in an uncontrolled Accordion of type 'single' at most one item is
\* open in every reachable state, a press on the open item's trigger closes
\* it and a press on another item's trigger opens that item and closes the
\* one that was open; in type 'multiple' a press flips the open state of the
\* item pressed and of no other item.
C26_AccordionOpenSet ==
    /\ [](wType = "single" => Cardinality(OpenItems) <= 1)
    /\ [][\A v \in Items :
              AccordionToggleItem(v) =>
                  IF wType = "single"
                  THEN OpenItems' = IF v \in OpenItems THEN {} ELSE {v}
                  ELSE OpenItems' = (OpenItems \ {v}) \cup ({v} \ OpenItems)]_vars

(***************************************************************************)
(* Properties of the Carousel, the InputOTP, the Select and the toasts.    *)
(***************************************************************************)
\* C27: whatever sequence of scrollPrev, scrollNext, scrollTo(i) and changes
\* of the number of CarouselItem children is applied, selectedIndex is 0 or
\* less than the item count; scrollPrev at index 0, scrollNext at the last
\* item and scrollTo with an index out of range leave selectedIndex as it
\* is; canScrollPrev (canScrollNext) is true exactly when the item before
\* (after) the selected one exists.
C27_CarouselIndexBounds ==
    /\ [](selectedIndex = 0 \/ selectedIndex < itemsCount)
    /\ [](/\ canScrollPrev <=> (selectedIndex - 1) \in 0..(itemsCount - 1)
          /\ canScrollNext <=> (selectedIndex + 1) \in 0..(itemsCount - 1))
    /\ [][/\ (scrollPrev /\ selectedIndex = 0) => selectedIndex' = selectedIndex
          /\ (scrollNext /\ selectedIndex = itemsCount - 1)
                => selectedIndex' = selectedIndex
          /\ \A index \in -1..(MaxItems + 1) :
                (scrollTo(index) /\ index \notin 0..(itemsCount - 1))
                     => selectedIndex' = selectedIndex]_vars

OnlyDigits(t) == \A k \in 1..Len(t) : t[k] \in Digits

\* C28: after any sequence of text changes of an uncontrolled InputOTP with
\* maxLength >= 1, the value held and every value passed to onChange consist
\* of digits only and have at most maxLength characters; activeInput is the
\* length of the value when that is below maxLength and maxLength - 1
\* otherwise, hence within 0..maxLength-1.
C28_OTPSanitised ==
    /\ \A t \in otpChanges \cup {internalValue} :
          OnlyDigits(t) /\ Len(t) <= maxLength
    /\ activeInput = IF Len(internalValue) < maxLength
                     THEN Len(internalValue) ELSE maxLength - 1
    /\ activeInput \in 0..(maxLength - 1)

\* Two slots, both filled.
C28_Witness ==
    /\ maxLength = 2
    /\ internalValue = <<"1", "7">>
    /\ activeInput = 1
    /\ otpChanges = {<<"1", "7">>}

C30_ToastLifecycle ==
    /\ \A id \in 1..MaxToasts :
          [](id \in ToastIds(toasts) => <>(id \notin ToastIds(toasts)))
    /\ [](\A k \in 1..Len(toasts) :
             \/ [id |-> toasts[k].id, delay |-> TimerDelay(toasts[k].duration)]
                    \in timers
             \/ [id |-> toasts[k].id, by |-> "timer"] \in fadeOuts)
    /\ [][\A id \in 1..MaxToasts :
              /\ (id \in ToastIds(toasts) /\ id \notin ToastIds(toasts'))
                    => /\ \E f \in fadeOuts : f.id = id /\ f \notin fadeOuts'
                       /\ Len(toasts') = Len(toasts) - 1
              /\ FadeOutEndsOf(id) =>
                    /\ toasts' = SelectSeq(toasts, LAMBDA toast : toast.id # id)
                    /\ id \notin ToastIds(toasts) => toasts' = toasts]_vars

\* The timer of toast 1 and a press on its dismiss button both started a
\* fade-out; one ended and removed the toast, the other is still to end, and
\* toast 2 is displayed.
C30_Witness ==
    /\ 1 \notin ToastIds(toasts)
    /\ 2 \in ToastIds(toasts)
    /\ \E f \in fadeOuts : f.id = 1

=============================================================================
